---- MODULE Spec2Model ----
(***************************************************************************)
(* Quota-Checker: the discovery-and-fetch pipeline (process detector, port *)
(* detective, port prober, Connect client, local parser), the quota store  *)
(* and the QuotaService that drives them.                                  *)
(*                                                                         *)
(* Exceptions are explicit: an operator that models a function returns a   *)
(* completion [threw, msg, value]; a try/catch of the source is a Catch.   *)
(* An error message is the sequence of the parts it is put together from.  *)
(***************************************************************************)
EXTENDS Integers, Naturals, Sequences, FiniteSets, TLC

VARIABLES
    platform,        \* process.platform, fixed for the lifetime of the host
    pc,              \* per fetch cycle: where getQuota stands
    det,             \* per cycle: completion of detectAntigravityProcess
    ports,           \* per cycle: completion of discoverPorts
    endpoint,        \* per cycle: completion of probeForConnectAPI
    status,          \* per cycle: completion of ConnectClient.getUserStatus
    snapshot,        \* per cycle: the parsed QuotaSnapshot
    called,          \* per cycle: the stages getQuota has invoked so far
    outcome,         \* per cycle: what getQuota gave its caller
    up,              \* per caller: the upsertAccountQuota call in flight
    cachedSnapshot,  \* QuotaService.cachedSnapshot
    lastError,       \* QuotaService.lastError
    file,            \* ~/.quota-checker/quota.json
    now,             \* Date.now()
    probe,           \* one probeForConnectAPI call, probe by probe
    accounts,        \* per caller: completion of getAllStoredAccounts
    statusBar,       \* what StatusBarManager.update was last given
    panel,           \* QuotaWebviewPanel.currentPanel
    rpc,             \* one ConnectClient.getUserStatus call, step by step
    portScan,        \* one discoverPorts call, with the sockets it ran against
    locate,          \* one parseUnixProcessLine call, with its command line
    polling,         \* the extension's polling timers and isIntensiveMode
    selection        \* the selected models: stored, read by a cycle, on display

vars == <<platform, pc, det, ports, endpoint, status, snapshot, called,
          outcome, up, cachedSnapshot, lastError, file, now, probe,
          accounts, statusBar, panel, rpc,
                   portScan, locate, polling, selection>>

----------------------------------------------------------------------------
(* Bounds of the model *)

\* longest output (in lines) of a process-listing or socket-listing utility
MaxLines == 2
\* latest wall-clock instant a store write can happen at
MaxNow == 2

----------------------------------------------------------------------------
(* Values *)

\* parseInt's not-a-number, and the pid of a process that was not found
NaN == -1
\* the value of an optional number that is not there
Undefined == -2
\* remainingPercentage 1.0, in percent
Full == 100

\* the pid of the Antigravity language server, and of an unrelated process
\* whose decimal pid ends with the same digits
LsPid == 42
OtherPid == 142

Return(v) == [threw |-> FALSE, msg |-> <<>>, value |-> v]
Throw(m, v) == [threw |-> TRUE, msg |-> m, value |-> v]
\* try { body } catch (err) { debug(..., err); return v }: msg keeps what
\* was logged
Catch(body, v) == IF body.threw THEN [threw |-> FALSE, msg |-> body.msg, value |-> v]
                  ELSE body

\* execAsync: the command's stdout lines, or a rejection (utility missing,
\* non-zero exit status, permission denied)
ExecFailed == [failed |-> TRUE, lines |-> <<>>]
ExecOk(ls) == [failed |-> FALSE, lines |-> ls]

SeqsUpTo(S, n) == UNION {[1..k -> S] : k \in 0..n}

RECURSIVE Includes(_, _)
Includes(s, x) == IF s = <<>> THEN FALSE
                  ELSE IF Head(s) = x THEN TRUE ELSE Includes(Tail(s), x)

----------------------------------------------------------------------------
(* Process detector *)

NoProcess == [found |-> FALSE, pid |-> NaN, csrfToken |-> ""]

\* A line of `ps aux`, by what the detector reads of it: whether it contains
\* 'antigravity', whether it contains a role substring, how many
\* whitespace-separated fields it has, parseInt of the second field, and the
\* value extractArgument finds for --csrf_token ("" when there is none).
PsLines ==
    { [antigravity |-> FALSE, role |-> TRUE,  fields |-> 11, pid |-> OtherPid, csrf |-> ""],
      [antigravity |-> TRUE,  role |-> FALSE, fields |-> 11, pid |-> OtherPid, csrf |-> ""],
      [antigravity |-> TRUE,  role |-> TRUE,  fields |-> 5,  pid |-> LsPid,    csrf |-> ""],
      [antigravity |-> TRUE,  role |-> TRUE,  fields |-> 11, pid |-> NaN,      csrf |-> "tok"],
      [antigravity |-> TRUE,  role |-> TRUE,  fields |-> 11, pid |-> LsPid,    csrf |-> "tok"],
      [antigravity |-> TRUE,  role |-> TRUE,  fields |-> 11, pid |-> LsPid,    csrf |-> ""] }

PsOutcomes == {ExecFailed} \cup {ExecOk(ls) : ls \in SeqsUpTo(PsLines, MaxLines)}

parseUnixProcessLine(line) ==
    IF line.fields < 11 THEN NoProcess
    ELSE IF line.pid = NaN THEN NoProcess
    ELSE [found |-> TRUE, pid |-> line.pid, csrfToken |-> line.csrf]

RECURSIVE detectOnUnixLoop(_)
detectOnUnixLoop(lines) ==
    IF lines = <<>> THEN NoProcess
    ELSE LET line == Head(lines)
             info == parseUnixProcessLine(line)
         IN IF line.antigravity /\ line.role /\ info.found
            THEN info
            ELSE detectOnUnixLoop(Tail(lines))

detectOnUnixBody(ps) ==
    IF ps.failed THEN Throw(<<"ps">>, NoProcess)
    ELSE Return(detectOnUnixLoop(ps.lines))

detectOnUnix(ps) == Catch(detectOnUnixBody(ps), NoProcess)

\* What extractArgument returns when neither pattern matches
Null == "<null>"

\* A command line, by its whitespace-separated tokens.  form "eq" is
\* --name=value, "flag" is --name alone, "word" is a bare value; quote tells
\* whether the value is written bare ("none"), in double or in single quotes.
Token(form, name, quote, value) ==
    [form |-> form, name |-> name, quote |-> quote, value |-> value]

\* the regular expressions are built with the 'i' flag
LowerCase(name) == IF name = "--CSRF_TOKEN" THEN "--csrf_token" ELSE name

\* ([^\s"']+|"[^"]*"|'[^']*') has something to match right after `--name=`
EqMatches(tok, argName) ==
    /\ tok.form = "eq"
    /\ LowerCase(tok.name) = LowerCase(argName)
    /\ (tok.quote # "none" \/ tok.value # "")

\* what the same group captures of the token after `--name `, quotes removed
CapturedAfter(tok) ==
    IF tok.form = "word" THEN tok.value
    ELSE IF tok.form = "flag" THEN tok.name
    ELSE IF tok.quote = "none" THEN tok.name \o "=" \o tok.value
    ELSE tok.name \o "="

extractArgument_eq_only(commandLine, argName) ==
    LET eqs == {i \in 1..Len(commandLine) : EqMatches(commandLine[i], argName)}
        first(S) == CHOOSE i \in S : \A j \in S : i <= j
    IN IF eqs # {} THEN commandLine[first(eqs)].value ELSE Null

extractArgument(commandLine, argName) ==
    LET eqs == {i \in 1..Len(commandLine) : EqMatches(commandLine[i], argName)}
        flags == {i \in 1..(Len(commandLine) - 1) :
                     /\ commandLine[i].form = "flag"
                     /\ LowerCase(commandLine[i].name) = LowerCase(argName)}
        first(S) == CHOOSE i \in S : \A j \in S : i <= j
    IN IF eqs # {} THEN commandLine[first(eqs)].value
       ELSE IF flags # {} THEN CapturedAfter(commandLine[first(flags) + 1])
       ELSE Null

\* parseInt(text, 10) of the values the model has
ParseInt(text) == IF text = "9000" THEN 9000 ELSE NaN

\* A line of the WMIC csv: number of comma-separated parts, parseInt of the
\* last part, whether the command line contains 'antigravity', and the token.
WmicLines ==
    { [parts |-> 2, pid |-> LsPid, antigravity |-> TRUE,  csrf |-> ""],
      [parts |-> 3, pid |-> NaN,   antigravity |-> TRUE,  csrf |-> ""],
      [parts |-> 3, pid |-> OtherPid, antigravity |-> FALSE, csrf |-> ""],
      [parts |-> 3, pid |-> LsPid, antigravity |-> TRUE,  csrf |-> "tok"] }

WmicOutcomes == {ExecFailed} \cup {ExecOk(ls) : ls \in SeqsUpTo(WmicLines, MaxLines)}

\* The PowerShell process list: the command fails, prints nothing, prints
\* text JSON.parse rejects, or prints a list of {Id} (0: a falsy Id).
Ps1NotRun == [kind |-> "notrun", ids |-> <<>>]
Ps1Outcomes ==
    { [kind |-> "failed", ids |-> <<>>],
      [kind |-> "empty", ids |-> <<>>],
      [kind |-> "badjson", ids |-> <<>>] }
    \cup {[kind |-> "json", ids |-> is] : is \in SeqsUpTo({0, LsPid}, MaxLines)}

\* The per-process command-line query: fails, or prints a command line
CimNotRun == [kind |-> "notrun", csrf |-> ""]
CimOutcomes ==
    { [kind |-> "failed", csrf |-> ""],
      [kind |-> "ok", csrf |-> ""],
      [kind |-> "ok", csrf |-> "tok"] }

RECURSIVE FirstTruthyId(_)
FirstTruthyId(ids) ==
    IF ids = <<>> THEN 0
    ELSE IF Head(ids) # 0 THEN Head(ids) ELSE FirstTruthyId(Tail(ids))

detectOnWindowsPowerShellBody(ps1, cim) ==
    IF ps1.kind = "failed" THEN Throw(<<"powershell">>, NoProcess)
    ELSE IF ps1.kind = "empty" THEN Return(NoProcess)
    ELSE IF ps1.kind = "badjson" THEN Throw(<<"JSON.parse">>, NoProcess)
    ELSE LET id == FirstTruthyId(ps1.ids)
         IN IF id = 0 THEN Return(NoProcess)
            ELSE IF cim.kind # "ok" THEN Throw(<<"powershell">>, NoProcess)
            ELSE Return([found |-> TRUE, pid |-> id, csrfToken |-> cim.csrf])

detectOnWindowsPowerShell(ps1, cim) ==
    Catch(detectOnWindowsPowerShellBody(ps1, cim), NoProcess)

RECURSIVE detectOnWindowsLoop(_)
detectOnWindowsLoop(lines) ==
    IF lines = <<>> THEN NoProcess
    ELSE LET line == Head(lines)
         IN IF line.parts >= 3 /\ line.pid # NaN /\ line.antigravity
            THEN [found |-> TRUE, pid |-> line.pid, csrfToken |-> line.csrf]
            ELSE detectOnWindowsLoop(Tail(lines))

\* whether detectOnWindows goes on to the PowerShell fallback
WmicFallsBack(wmic) == wmic.failed \/ ~detectOnWindowsLoop(wmic.lines).found

detectOnWindows(wmic, ps1, cim) ==
    IF WmicFallsBack(wmic)
    THEN detectOnWindowsPowerShell(ps1, cim)
    ELSE Return(detectOnWindowsLoop(wmic.lines))

\* The commands one detection runs, by platform; a command that is not run
\* has no outcome.
DetectEnvs(pf) ==
    IF pf = "win32"
    THEN UNION { { [ps |-> ExecFailed, wmic |-> w, ps1 |-> p, cim |-> c] :
                     c \in IF WmicFallsBack(w) /\ p.kind = "json"
                                /\ FirstTruthyId(p.ids) # 0
                           THEN CimOutcomes ELSE {CimNotRun} } :
                 <<w, p>> \in { <<w2, p2>> \in WmicOutcomes \X (Ps1Outcomes \cup {Ps1NotRun}) :
                                  WmicFallsBack(w2) <=> p2 # Ps1NotRun } }
    ELSE { [ps |-> o, wmic |-> ExecFailed, ps1 |-> Ps1NotRun, cim |-> CimNotRun] :
             o \in PsOutcomes }

detectAntigravityProcess(pf, env) ==
    IF pf = "win32"
    THEN detectOnWindows(env.wmic, env.ps1, env.cim)
    ELSE detectOnUnix(env.ps)

----------------------------------------------------------------------------
(* Port detective *)

\* Candidate port numbers
PortA == 51234
PortB == 9000

\* The TCP sockets of the machine as the socket-listing utilities print
\* them, one line per socket: the owning pid, the local port and whether the
\* socket is in LISTEN state.  A line with port NaN is a line no port
\* pattern matches (a header, a malformed line).
SocketRows ==
    { [pid |-> LsPid,    port |-> PortA, listen |-> TRUE],
      [pid |-> LsPid,    port |-> PortB, listen |-> TRUE],
      [pid |-> LsPid,    port |-> PortB, listen |-> FALSE],
      [pid |-> OtherPid, port |-> PortB, listen |-> TRUE],
      [pid |-> LsPid,    port |-> NaN,   listen |-> TRUE] }

SocketTables == SeqsUpTo(SocketRows, MaxLines)

\* primary: the first utility of the platform fails to run; fallback: the
\* second one (Linux netstat) fails to run
PortEnvs == [table : SocketTables, primaryFails : BOOLEAN, fallbackFails : BOOLEAN]

\* a utility piped to grep, or lsof, exits non-zero when it prints no line
Exec(fails, lines) == IF fails \/ lines = <<>> THEN ExecFailed ELSE ExecOk(lines)

\* the number of decimal digits of n, as a power of ten
RECURSIVE Pow10Above(_, _)
Pow10Above(n, p) == IF n < p THEN p ELSE Pow10Above(n, p * 10)

\* the decimal text of `pid` followed by "/" occurs in "<owner>/program"
PidTextMatches(pid, owner) ==
    pid >= 0 /\ owner >= 0 /\ owner % Pow10Above(pid, 10) = pid

\* `lsof -nP -iTCP -sTCP:LISTEN -a -p <pid>`
LsofOutput(pid, env) ==
    LET Keep(r) == r.listen /\ r.pid = pid
    IN Exec(env.primaryFails, SelectSeq(env.table, Keep))

\* `ss -tlnp | grep "pid=<pid>,"`
SsOutput(pid, env) ==
    LET Keep(r) == r.listen /\ r.pid = pid
    IN Exec(env.primaryFails, SelectSeq(env.table, Keep))

\* `netstat -tlnp 2>/dev/null | grep "<pid>/"`
NetstatOutput(pid, env) ==
    LET Keep(r) == r.listen /\ PidTextMatches(pid, r.pid)
    IN Exec(env.fallbackFails, SelectSeq(env.table, Keep))

\* `netstat -ano`: every socket, no filter
WinNetstatOutput(env) ==
    IF env.primaryFails THEN ExecFailed ELSE ExecOk(env.table)

\* for (const line of lines) { match; if (!isNaN(port) && !ports.includes(port)) push }
RECURSIVE CollectPorts_keeps_all(_, _)
CollectPorts_keeps_all(lines, acc) ==
    IF lines = <<>> THEN acc
    ELSE LET port == Head(lines).port
         IN IF port # NaN
            THEN CollectPorts_keeps_all(Tail(lines), Append(acc, port))
            ELSE CollectPorts_keeps_all(Tail(lines), acc)

RECURSIVE CollectPorts(_, _)
CollectPorts(lines, acc) ==
    IF lines = <<>> THEN acc
    ELSE LET port == Head(lines).port
         IN IF port # NaN /\ ~Includes(acc, port)
            THEN CollectPorts(Tail(lines), Append(acc, port))
            ELSE CollectPorts(Tail(lines), acc)

discoverPortsOnMacOS(pid, env) ==
    LET out == LsofOutput(pid, env)
        body == IF out.failed THEN Throw(<<"lsof">>, <<>>)
                ELSE Return(CollectPorts(out.lines, <<>>))
    IN Catch(body, <<>>)

discoverPortsOnLinuxNetstat_rethrows(pid, env) ==
    LET out == NetstatOutput(pid, env)
    IN IF out.failed THEN Throw(<<"netstat">>, <<>>)
       ELSE Return(CollectPorts(out.lines, <<>>))

discoverPortsOnLinuxNetstat(pid, env) ==
    LET out == NetstatOutput(pid, env)
        body == IF out.failed THEN Throw(<<"netstat">>, <<>>)
                ELSE Return(CollectPorts(out.lines, <<>>))
    IN Catch(body, <<>>)

discoverPortsOnLinux(pid, env) ==
    LET out == SsOutput(pid, env)
        found == CollectPorts(out.lines, <<>>)
    IN IF out.failed THEN discoverPortsOnLinuxNetstat(pid, env)
       ELSE IF Len(found) > 0 THEN Return(found)
       ELSE discoverPortsOnLinuxNetstat(pid, env)

discoverPortsOnWindows(pid, env) ==
    LET out == WinNetstatOutput(env)
        Listening(line) == line.listen /\ line.pid = pid
        body == IF out.failed THEN Throw(<<"netstat">>, <<>>)
                ELSE Return(CollectPorts(SelectSeq(out.lines, Listening), <<>>))
    IN Catch(body, <<>>)

discoverPorts(pf, pid, env) ==
    IF pf = "win32" THEN discoverPortsOnWindows(pid, env)
    ELSE IF pf = "darwin" THEN discoverPortsOnMacOS(pid, env)
    ELSE discoverPortsOnLinux(pid, env)

----------------------------------------------------------------------------
(* Port prober *)

\* What a request that was issued ends in: a response with a status code, a
\* connection error, or the timeout event.
HttpOutcomes ==
    { [kind |-> "response", code |-> 200],
      [kind |-> "response", code |-> 404],
      [kind |-> "error",    code |-> 0],
      [kind |-> "timeout",  code |-> 0] }

NotIssued == [kind |-> "none", code |-> 0]

\* the events of a request that have a handler settling the promise: the
\* response (for the probes the 'response' event itself, for the status RPC
\* the 'end' of its body), req.on('error') and req.on('timeout')
HandledEvents == {"response", "error", "timeout"}

\* How a port answers: to the HTTPS POST GetUnleashData, and to the HTTP GET /
\* that is issued when the first did not get a 200
PortBehaviours ==
    { b \in [secure : HttpOutcomes, plain : HttpOutcomes \cup {NotIssued}] :
        (b.plain = NotIssued) <=> (b.secure.kind = "response" /\ b.secure.code = 200) }

NoEndpoint == [found |-> FALSE, protocol |-> "", host |-> "", port |-> NaN]

\* the promise of probeHttps resolves with ...
probeHttps_any_response(port, out) ==
    IF out.kind = "response"
    THEN [found |-> TRUE, protocol |-> "https", host |-> "127.0.0.1", port |-> port]
    ELSE NoEndpoint

probeHttps(port, out) ==
    IF out.kind = "response" /\ out.code = 200
    THEN [found |-> TRUE, protocol |-> "https", host |-> "127.0.0.1", port |-> port]
    ELSE NoEndpoint

\* the promise of probeHttp resolves with ...
probeHttp_only_200(port, out) ==
    IF out.kind = "response" /\ out.code = 200
    THEN [found |-> TRUE, protocol |-> "http", host |-> "localhost", port |-> port]
    ELSE NoEndpoint

probeHttp(port, out) ==
    IF out.kind = "response"
    THEN [found |-> TRUE, protocol |-> "http", host |-> "localhost", port |-> port]
    ELSE NoEndpoint

probePort(port, beh) ==
    LET httpsResult == probeHttps(port, beh.secure)
    IN IF httpsResult.found THEN httpsResult
       ELSE probeHttp(port, beh.plain)

\* for (i = 0; i < results.length; i++) if (fulfilled && value) return value
RECURSIVE FirstFulfilled(_)
FirstFulfilled(results) ==
    IF results = <<>> THEN NoEndpoint
    ELSE IF Head(results).found THEN Head(results)
    ELSE FirstFulfilled(Tail(results))

\* the value of the earliest probe to settle with an endpoint
RECURSIVE FirstSettled(_, _)
FirstSettled(results, order) ==
    IF order = <<>> THEN NoEndpoint
    ELSE IF results[Head(order)].found THEN results[Head(order)]
    ELSE FirstSettled(results, Tail(order))

\* what probeForConnectAPI returns once Promise.allSettled has resolved:
\* results in the order of `ports`, `order` the order the probes settled in
SelectEndpoint_by_completion(results, order) == FirstSettled(results, order)

SelectEndpoint(results, order) == FirstFulfilled(results)

\* probeForConnectAPI as a function of how each listed port answers
probeForConnectAPI(portList, behs) ==
    Return(SelectEndpoint([i \in 1..Len(portList) |-> probePort(portList[i], behs[i])],
                          [i \in 1..Len(portList) |-> i]))

----------------------------------------------------------------------------
(* Connect client *)

\* email of a status without one
NoEmail == "<undefined>"
Emails == {"a@x.io", "b@x.io"}

GetUserStatusPath == "/exa.language_server_pb.LanguageServerService/GetUserStatus"

\* An entry of cascadeModelConfigData.clientModelConfigs: the model id, the
\* remaining fraction in percent (Undefined: no number) and the instant
\* quotaInfo.resetTime names (Undefined: none, or no valid date).
RawModel(id, fraction, reset) ==
    [modelId |-> id, remainingFraction |-> fraction, resetTime |-> reset]

\* The body of a response, by what the client reads of it.  shape: "empty"
\* (no text), "text" (text JSON.parse rejects), "falsy" (JSON null, 0, false
\* or ""), "primitive" (an object whose userStatus is a string or a number)
\* or "object".
Body(shape, text, email, models) ==
    [shape |-> shape, text |-> text, email |-> email, models |-> models]

NoBody == Body("empty", "", NoEmail, <<>>)

parseResetTime(resetTime, t) ==
    IF resetTime # Undefined /\ resetTime - t > 0 THEN resetTime - t ELSE Undefined

\* a ConnectModelInfo, flattened: quota.remainingPercentage and
\* quota.timeUntilResetMs beside the rest; hasIsExhausted: the optional
\* isExhausted is there
ConnectModelInfo(id, pct, untilReset, hasIsExhausted, isExhausted) ==
    [ modelId |-> id, label |-> id, remainingPercentage |-> pct,
      timeUntilResetMs |-> untilReset,
      hasIsExhausted |-> hasIsExhausted, isExhausted |-> isExhausted ]

parseModel(m, t) ==
    ConnectModelInfo(m.modelId, m.remainingFraction, parseResetTime(m.resetTime, t),
                     TRUE, m.remainingFraction = 0 \/ m.remainingFraction = Undefined)

\* a ConnectUserStatus: raw is the response as received
NoStatus == [email |-> NoEmail, models |-> <<>>, raw |-> ""]

parseUserStatus(response, t) ==
    IF response.shape = "text" THEN Return([NoStatus EXCEPT !.raw = response.text])
    ELSE IF response.shape = "primitive"
    THEN Throw(<<"Cannot use 'in' operator to search for 'email'">>, NoStatus)
    ELSE Return([ email |-> response.email,
                  models |-> [i \in 1..Len(response.models) |->
                                 parseModel(response.models[i], t)],
                  raw |-> response.text ])

\* ConnectClient.request: the promise resolves with the parsed body, or with
\* the text when JSON.parse rejects it, or rejects
request_reports_body(path, resp) ==
    IF resp.kind = "error" THEN Throw(<<"connect ECONNREFUSED">>, NoBody)
    ELSE IF resp.kind = "timeout" THEN Throw(<<"Request timed out">>, NoBody)
    ELSE IF resp.code >= 200 /\ resp.code < 300 THEN Return(resp.body)
    ELSE Throw(<<"HTTP ", "status", ": ", resp.body.text>>, NoBody)

request(path, resp) ==
    IF resp.kind = "error" THEN Throw(<<"connect ECONNREFUSED">>, NoBody)
    ELSE IF resp.kind = "timeout" THEN Throw(<<"Request timed out">>, NoBody)
    ELSE IF resp.code >= 200 /\ resp.code < 300 THEN Return(resp.body)
    ELSE IF resp.code = 404 THEN Throw(<<"Endpoint not found: ", path>>, NoBody)
    ELSE Throw(<<"HTTP ", "status", ": ", resp.body.text>>, NoBody)

\* JavaScript truthiness of what request resolved with
Truthy(value) == value.shape \notin {"empty", "falsy"}

getUserStatus(resp, t) ==
    LET response == request(GetUserStatusPath, resp)
        parsed == parseUserStatus(response.value, t)
    IN IF response.threw
       THEN Throw(<<"Failed to fetch user status: ">> \o response.msg, NoStatus)
       ELSE IF Truthy(response.value)
       THEN IF parsed.threw
            THEN Throw(<<"Failed to fetch user status: ">> \o parsed.msg, NoStatus)
            ELSE parsed
       ELSE Throw(<<"Could not fetch user status from Connect RPC endpoint">>, NoStatus)

----------------------------------------------------------------------------
(* Local parser *)

\* isExhausted: model.isExhausted ?? quota?.remainingPercentage === 0
parseModelQuota(model) ==
    [ label |-> model.label,
      modelId |-> model.modelId,
      remainingPercentage |-> model.remainingPercentage,
      isExhausted |-> IF model.hasIsExhausted THEN model.isExhausted
                      ELSE model.remainingPercentage = 0,
      timeUntilResetMs |-> model.timeUntilResetMs ]

parseLocalQuotaSnapshot(userStatus) ==
    [ email |-> userStatus.email,
      models |-> [i \in 1..Len(userStatus.models) |-> parseModelQuota(userStatus.models[i])] ]

NoSnapshot == [email |-> NoEmail, models |-> <<>>]

----------------------------------------------------------------------------
(* Quota store *)

\* the callers that can have a fetch cycle, or an upsert, in flight: the
\* polling timer and the user (dashboard refresh)
Triggers == {"timer", "user"}

EmptyStore == <<>>
NoFile == [exists |-> FALSE, valid |-> FALSE, store |-> EmptyStore]

\* a property of a parsed JSON object, undefined when the object has none
Get(obj, key) == IF key \in DOMAIN obj THEN obj[key] ELSE Undefined

\* JSON.stringify leaves out a property whose value is undefined
StringifyModel(m) ==
    IF Get(m, "frozenResetMs") = Undefined
    THEN [k \in DOMAIN m \ {"frozenResetMs"} |-> m[k]]
    ELSE m

JsonStringify_adds_token(store) ==
    [e \in DOMAIN store |->
        [ lastUpdated |-> store[e].lastUpdated,
          csrfToken |-> det["user"].value.csrfToken,
          models |-> [id \in DOMAIN store[e].models |->
                         StringifyModel(store[e].models[id])] ]]

JsonStringify(store) ==
    [e \in DOMAIN store |->
        [ lastUpdated |-> store[e].lastUpdated,
          models |-> [id \in DOMAIN store[e].models |->
                         StringifyModel(store[e].models[id])] ]]

\* readQuotaStore: ioFails is a read error other than ENOENT
readQuotaStore_empty_on_bad_json(f, ioFails) ==
    IF ioFails THEN Throw(<<"EACCES">>, EmptyStore)
    ELSE IF ~f.exists \/ ~f.valid THEN Return(EmptyStore)
    ELSE Return(f.store)

readQuotaStore(f, ioFails) ==
    IF ioFails THEN Throw(<<"EACCES">>, EmptyStore)
    ELSE IF ~f.exists THEN Return(EmptyStore)
    ELSE IF ~f.valid THEN Throw(<<"SyntaxError">>, EmptyStore)
    ELSE Return(f.store)

\* writeQuotaStore: the file after it, and whether it threw
writeQuotaStore_merges(f, store, mkdirFails, writeFails) ==
    IF mkdirFails THEN Throw(<<"mkdir">>, f)
    ELSE IF writeFails THEN Throw(<<"writeFile">>, f)
    ELSE Return([exists |-> TRUE, valid |-> TRUE,
                 store |-> [e \in DOMAIN f.store \cup DOMAIN store |->
                              IF e \in DOMAIN store THEN JsonStringify(store)[e]
                              ELSE f.store[e]]])

writeQuotaStore(f, store, mkdirFails, writeFails) ==
    IF mkdirFails THEN Throw(<<"mkdir">>, f)
    ELSE IF writeFails THEN Throw(<<"writeFile">>, f)
    ELSE Return([exists |-> TRUE, valid |-> TRUE, store |-> JsonStringify(store)])

\* try { return await readQuotaStore() } catch { return {} }
getAllStoredAccounts_rethrows(f, ioFails) == readQuotaStore(f, ioFails)

getAllStoredAccounts(f, ioFails) == Catch(readQuotaStore(f, ioFails), EmptyStore)

\* a number is truthy unless it is 0 (or NaN); undefined is not
TruthyNumber(n) == n # Undefined /\ n # NaN /\ n # 0

toStoredModel_freezes_always(model, t) ==
    LET pct == IF model.remainingPercentage = Undefined THEN 0
               ELSE model.remainingPercentage
    IN [ label |-> model.label,
         modelId |-> model.modelId,
         remainingPercentage |-> pct,
         isExhausted |-> model.isExhausted,
         resetAt |-> IF TruthyNumber(model.timeUntilResetMs)
                     THEN t + model.timeUntilResetMs ELSE 0,
         frozenResetMs |-> model.timeUntilResetMs ]

toStoredModel(model, t) ==
    LET pct == IF model.remainingPercentage = Undefined THEN 0
               ELSE model.remainingPercentage
    IN [ label |-> model.label,
         modelId |-> model.modelId,
         remainingPercentage |-> pct,
         isExhausted |-> model.isExhausted,
         resetAt |-> IF TruthyNumber(model.timeUntilResetMs)
                     THEN t + model.timeUntilResetMs ELSE 0,
         frozenResetMs |-> IF pct >= Full THEN model.timeUntilResetMs ELSE Undefined ]

\* the body of the loop over snapshot.models: the record stored for `model`,
\* given the account's previous models (a mapping, empty when there is none)
StoredFor_never_carries(model, existingModels, t) == toStoredModel(model, t)

StoredFor_carries_if_frozen(model, existingModels, t) ==
    LET stored == toStoredModel(model, t)
    IN IF /\ stored.remainingPercentage >= Full
          /\ model.modelId \in DOMAIN existingModels
          /\ "frozenResetMs" \in DOMAIN existingModels[model.modelId]
       THEN [stored EXCEPT
               !.resetAt = existingModels[model.modelId].resetAt,
               !.frozenResetMs = existingModels[model.modelId].frozenResetMs]
       ELSE stored

StoredFor(model, existingModels, t) ==
    LET stored == toStoredModel(model, t)
    IN IF stored.remainingPercentage >= Full /\ model.modelId \in DOMAIN existingModels
       THEN LET existing == existingModels[model.modelId]
            IN [stored EXCEPT
                  !.resetAt = IF TruthyNumber(existing.resetAt)
                              THEN existing.resetAt ELSE @,
                  !.frozenResetMs = IF TruthyNumber(Get(existing, "frozenResetMs"))
                                    THEN existing.frozenResetMs ELSE @]
       ELSE stored

RECURSIVE ModelsRecord(_, _, _, _)
ModelsRecord(models, existingModels, t, acc) ==
    IF models = <<>> THEN acc
    ELSE LET model == Head(models)
             stored == StoredFor(model, existingModels, t)
         IN ModelsRecord(Tail(models), existingModels, t,
               [id \in DOMAIN acc \cup {model.modelId} |->
                   IF id = model.modelId THEN stored ELSE acc[id]])

\* a store that keeps the account's earlier models beside the new ones
Upserted_merges_models(store, email, snap, t) ==
    LET existingModels == IF email \in DOMAIN store THEN store[email].models
                          ELSE <<>>
        account == [ lastUpdated |-> t,
                     models |-> ModelsRecord(snap.models, existingModels, t,
                                             existingModels) ]
    IN [e \in DOMAIN store \cup {email} |-> IF e = email THEN account ELSE store[e]]

\* the store upsertAccountQuota hands to writeQuotaStore
Upserted(store, email, snap, t) ==
    LET existingModels == IF email \in DOMAIN store THEN store[email].models
                          ELSE <<>>
        account == [ lastUpdated |-> t,
                     models |-> ModelsRecord(snap.models, existingModels, t, <<>>) ]
    IN [e \in DOMAIN store \cup {email} |-> IF e = email THEN account ELSE store[e]]

\* catch (err) { error(...)  /* don't throw */ }
upsertCatch_rethrows(body) == body

upsertCatch(body) == Catch(body, body.value)

NoUpsert == [pc |-> "idle", email |-> NoEmail, snap |-> NoSnapshot,
             store |-> EmptyStore, failed |-> FALSE, threw |-> FALSE]

\* upsertAccountQuota up to the point where readQuotaStore has settled and
\* the new store is built
UpsertRead(c) ==
    /\ up[c].pc = "read"
    /\ \E ioFails \in BOOLEAN :
         LET r == upsertCatch(readQuotaStore(file, ioFails))
             failed == readQuotaStore(file, ioFails).threw
         IN up' = [up EXCEPT ![c] =
                     IF failed
                     THEN [NoUpsert EXCEPT !.pc = "returned", !.failed = TRUE,
                                           !.threw = r.threw,
                                           !.email = up[c].email]
                     ELSE [@ EXCEPT !.pc = "write",
                                    !.store = Upserted(r.value, up[c].email,
                                                       up[c].snap, now)]]
    /\ UNCHANGED <<platform, pc, det, ports, endpoint, status, snapshot, called,
                   outcome, cachedSnapshot, lastError, file, now, probe,
                   accounts, statusBar, panel, rpc,
                   portScan, locate, polling, selection>>

\* ... and from there to its end: ensureQuotaDir, writeFile
UpsertWrite(c) ==
    /\ up[c].pc = "write"
    /\ \E mkdirFails \in BOOLEAN, writeFails \in BOOLEAN :
         LET w == writeQuotaStore(file, up[c].store, mkdirFails, writeFails)
             r == upsertCatch(w)
         IN /\ file' = w.value
            /\ up' = [up EXCEPT ![c] = [NoUpsert EXCEPT !.pc = "returned",
                                                        !.failed = w.threw,
                                                        !.threw = r.threw,
                                                        !.email = up[c].email]]
    /\ UNCHANGED <<platform, pc, det, ports, endpoint, status, snapshot, called,
                   outcome, cachedSnapshot, lastError, now, probe,
                   accounts, statusBar, panel, rpc,
                   portScan, locate, polling, selection>>

----------------------------------------------------------------------------
(* QuotaService.getQuota, one fetch cycle per trigger *)

\* What the status RPC can end in
ModelsSent ==
    { <<>>,
      <<RawModel("m1", Full, 1)>>,
      <<RawModel("m1", 0, Undefined)>> }

StatusResponses ==
    { [kind |-> "error",   code |-> 0, body |-> NoBody],
      [kind |-> "timeout", code |-> 0, body |-> NoBody],
      [kind |-> "response", code |-> 404, body |-> Body("text", "not found", NoEmail, <<>>)],
      [kind |-> "response", code |-> 500, body |-> Body("text", "oops", NoEmail, <<>>)],
      [kind |-> "response", code |-> 200, body |-> NoBody],
      [kind |-> "response", code |-> 200, body |-> Body("text", "<html>", NoEmail, <<>>)],
      [kind |-> "response", code |-> 200, body |-> Body("falsy", "null", NoEmail, <<>>)],
      [kind |-> "response", code |-> 200, body |-> Body("primitive", "{..}", NoEmail, <<>>)] }
    \cup { [kind |-> "response", code |-> 200, body |-> Body("object", "{..}", e, ms)] :
             e \in {NoEmail, "", "a@x.io"}, ms \in ModelsSent }

NoCall == [kind |-> "none", msg |-> <<>>, value |-> NoSnapshot]
NoCached == [set |-> FALSE, value |-> NoSnapshot]
NoError == [set |-> FALSE, msg |-> <<>>]

\* a local that getQuota has not assigned yet, or will not read again:
\* processInfo and ports once the client is constructed, endpoint and the
\* raw status once the status call has settled
NoDet == Return(NoProcess)
NoPortList == Return(<<>>)
NoProbe == Return(NoEndpoint)
NoStatusYet == Return(NoStatus)

Call(fn, arg) == [fn |-> fn, arg |-> arg]

\* if (!processInfo)
ProcessMissing_never(info) == FALSE

ProcessMissing(info) == ~info.found

\* if (ports.length === 0)
NoPorts_never(portList) == FALSE

NoPorts(portList) == Len(portList) = 0

\* if (!endpoint)
EndpointMissing(ep) == ~ep.found

\* if (snapshot.email)
HasEmail_unless_undefined(snap) == snap.email # NoEmail

HasEmail(snap) == snap.email # NoEmail /\ snap.email # ""

\* how getQuota ends when a stage reports absence: throw new Error(message)
Absent_returns_null(message) == [kind |-> "returned", msg |-> <<>>, value |-> NoSnapshot]

Absent(message) == [kind |-> "raised", msg |-> message, value |-> NoSnapshot]

\* catch (err) { this.lastError = e; throw e }  (or a normal return)
Settle(c, how) ==
    /\ pc' = [pc EXCEPT ![c] = "done"]
    /\ outcome' = [outcome EXCEPT ![c] = how]
    /\ lastError' = IF how.kind = "raised" THEN [set |-> TRUE, msg |-> how.msg]
                    ELSE lastError
    /\ UNCHANGED cachedSnapshot

\* this.cachedSnapshot = snapshot; this.lastError = null; return snapshot
Succeed_keeps_error(c, snap) ==
    /\ pc' = [pc EXCEPT ![c] = "done"]
    /\ outcome' = [outcome EXCEPT ![c] = [kind |-> "returned", msg |-> <<>>, value |-> snap]]
    /\ cachedSnapshot' = [set |-> TRUE, value |-> snap]
    /\ UNCHANGED lastError

Succeed(c, snap) ==
    /\ pc' = [pc EXCEPT ![c] = "done"]
    /\ outcome' = [outcome EXCEPT ![c] = [kind |-> "returned", msg |-> <<>>, value |-> snap]]
    /\ cachedSnapshot' = [set |-> TRUE, value |-> snap]
    /\ lastError' = NoError

NoAccounts == Return(EmptyStore)
NoStatusBar == [snapshot |-> NoCached, error |-> NoError]
NoPanel == [open |-> FALSE, snapshot |-> NoCached, error |-> NoError]
\* before discoverPorts, parseUnixProcessLine, activate and any toggle
NoPortScan ==
    [ phase |-> "idle", pid |-> 0,
      env |-> [table |-> <<>>, primaryFails |-> FALSE, fallbackFails |-> FALSE],
      result |-> NoPortList ]
NoLocate ==
    [ phase |-> "idle", commandLine |-> <<>>,
      csrfToken |-> Null, extensionServerPort |-> Null, port |-> Undefined ]
\* pollingInterval 0: undefined; timers: the intervals set and not cleared
NoPolling ==
    [ phase |-> "idle", isIntensiveMode |-> FALSE, pollingInterval |-> 0,
      timers |-> {}, nextId |-> 1, lastFired |-> 0, awaiting |-> 0 ]
\* stored: the list under SELECTED_MODELS_KEY in globalState (as a set);
\* read: what fetchQuota of a cycle got from getSelectedModels; bar, panel:
\* the selection the status bar and the dashboard were last given;
\* toggle: the handleToggleModel call in flight
NoSelection ==
    [ stored |-> {}, read |-> [c \in Triggers |-> {}], bar |-> {}, panel |-> {},
      toggle |-> [phase |-> "idle", updated |-> {}, count |-> 0] ]

NoRpc == [phase |-> "idle", response |-> [kind |-> "none", code |-> 0, body |-> NoBody]]

\* the command quota-checker.openDashboard, up to its call of fetchQuota:
\* the panel is created or revealed and given the cache
openDashboard == [open |-> TRUE, snapshot |-> cachedSnapshot, error |-> lastError]

\* fetchQuota is called, by the timer (or by activate) or by the user opening
\* the dashboard, once per trigger; cycles may overlap.  getQuota runs up to
\* its first await
BeginFetch(c) ==
    /\ pc[c] = "idle"
    /\ pc' = [pc EXCEPT ![c] = "detect"]
    /\ det' = [det EXCEPT ![c] = NoDet]
    /\ ports' = [ports EXCEPT ![c] = NoPortList]
    /\ endpoint' = [endpoint EXCEPT ![c] = NoProbe]
    /\ status' = [status EXCEPT ![c] = NoStatusYet]
    /\ snapshot' = [snapshot EXCEPT ![c] = NoSnapshot]
    /\ outcome' = [outcome EXCEPT ![c] = NoCall]
    /\ called' = [called EXCEPT ![c] = {Call("detectAntigravityProcess", 0)}]

Start(c) ==
    /\ BeginFetch(c)
    /\ panel' = IF c = "user" THEN openDashboard ELSE panel
    /\ selection' = [selection EXCEPT
                       !.read[c] = selection.stored,
                       !.panel = IF c = "user" THEN selection.stored ELSE @]
    /\ UNCHANGED <<platform, up, cachedSnapshot, lastError, file, now, probe,
                   accounts, statusBar, rpc,
                   portScan, locate, polling>>

\* Step 1 settles; step 2 is called
Detect(c) ==
    /\ pc[c] = "detect"
    /\ \E env \in DetectEnvs(platform) :
         LET r == detectAntigravityProcess(platform, env)
         IN /\ det' = [det EXCEPT ![c] = r]
            /\ IF r.threw
               THEN Settle(c, Absent(r.msg)) /\ UNCHANGED called
               ELSE IF ProcessMissing(r.value)
               THEN Settle(c, Absent(<<"Antigravity process not found">>))
                    /\ UNCHANGED called
               ELSE /\ pc' = [pc EXCEPT ![c] = "ports"]
                    /\ called' = [called EXCEPT ![c] =
                                    @ \cup {Call("discoverPorts", r.value.pid)}]
                    /\ UNCHANGED <<outcome, cachedSnapshot, lastError>>
    /\ UNCHANGED <<platform, ports, endpoint, status, snapshot, up, file, now, probe,
                   accounts, statusBar, panel, rpc,
                   portScan, locate, polling, selection>>

\* Step 2 settles; step 3 is called
DiscoverPorts(c) ==
    /\ pc[c] = "ports"
    /\ \E env \in PortEnvs :
         LET r == discoverPorts(platform, det[c].value.pid, env)
         IN /\ ports' = [ports EXCEPT ![c] = r]
            /\ IF r.threw
               THEN Settle(c, Absent(r.msg)) /\ UNCHANGED called
               ELSE IF NoPorts(r.value)
               THEN Settle(c, Absent(<<"No listening ports found for Antigravity">>))
                    /\ UNCHANGED called
               ELSE /\ pc' = [pc EXCEPT ![c] = "probe"]
                    /\ called' = [called EXCEPT ![c] =
                                    @ \cup {Call("probeForConnectAPI", 0)}]
                    /\ UNCHANGED <<outcome, cachedSnapshot, lastError>>
    /\ UNCHANGED <<platform, det, endpoint, status, snapshot, up, file, now, probe,
                   accounts, statusBar, panel, rpc,
                   portScan, locate, polling, selection>>

\* Step 3 settles; step 4 is called
Probe(c) ==
    /\ pc[c] = "probe"
    /\ \E behs \in [1..Len(ports[c].value) -> PortBehaviours] :
         LET r == probeForConnectAPI(ports[c].value, behs)
         IN /\ endpoint' = [endpoint EXCEPT ![c] = r]
            /\ IF r.threw
               THEN Settle(c, Absent(r.msg)) /\ UNCHANGED <<called, det, ports>>
               ELSE IF EndpointMissing(r.value)
               THEN Settle(c, Absent(<<"Could not find Connect API endpoint">>))
                    /\ UNCHANGED <<called, det, ports>>
               ELSE /\ pc' = [pc EXCEPT ![c] = "status"]
                    /\ ports' = [ports EXCEPT ![c] = NoPortList]
                    /\ UNCHANGED det
                    /\ called' = [called EXCEPT ![c] =
                                    @ \cup {Call("getUserStatus", 0)}]
                    /\ UNCHANGED <<outcome, cachedSnapshot, lastError>>
    /\ UNCHANGED <<platform, status, snapshot, up, file, now, probe,
                   accounts, statusBar, panel, rpc,
                   portScan, locate, polling, selection>>

\* Step 4 settles; step 5 runs; step 6 is called when there is an email
Status(c) ==
    /\ pc[c] = "status"
    /\ \E resp \in StatusResponses :
         LET r == getUserStatus(resp, now)
             snap == parseLocalQuotaSnapshot(r.value)
         IN /\ status' = [status EXCEPT ![c] = [r EXCEPT !.value = NoStatus]]
            /\ IF r.threw
               THEN /\ Settle(c, [kind |-> "raised", msg |-> r.msg, value |-> NoSnapshot])
                    /\ UNCHANGED <<called, snapshot, up>>
               ELSE /\ snapshot' = [snapshot EXCEPT ![c] = snap]
                    /\ IF HasEmail(snap)
                       THEN /\ pc' = [pc EXCEPT ![c] = "store"]
                            /\ called' = [called EXCEPT ![c] =
                                            @ \cup {Call("upsertAccountQuota", 0)}]
                            /\ up' = [up EXCEPT ![c] =
                                        [NoUpsert EXCEPT !.pc = "read",
                                                         !.email = snap.email,
                                                         !.snap = snap]]
                            /\ UNCHANGED <<outcome, cachedSnapshot, lastError>>
                       ELSE Succeed(c, snap) /\ UNCHANGED <<called, up>>
    /\ endpoint' = [endpoint EXCEPT ![c] = NoProbe]
    /\ UNCHANGED <<platform, det, ports, file, now, probe,
                   accounts, statusBar, panel, rpc,
                   portScan, locate, polling, selection>>

\* Step 6 settles
Stored(c) ==
    /\ pc[c] = "store"
    /\ up[c].pc = "returned"
    /\ IF up[c].threw
       THEN Settle(c, [kind |-> "raised", msg |-> <<"upsertAccountQuota">>,
                       value |-> NoSnapshot])
       ELSE Succeed(c, snapshot[c])
    /\ up' = [up EXCEPT ![c] = [@ EXCEPT !.pc = "idle"]]
    /\ UNCHANGED <<platform, det, ports, endpoint, status, snapshot, called,
                   file, now, probe,
                   accounts, statusBar, panel, rpc,
                   portScan, locate, polling, selection>>
\* what statusBar.update and QuotaWebviewPanel.updateCurrent put on display,
\* over whatever is there, for a cycle that ended as o
Displayed_keeps_first(current, o) ==
    IF current # NoStatusBar THEN current
    ELSE IF o.kind = "raised"
    THEN [snapshot |-> NoCached, error |-> [set |-> TRUE, msg |-> o.msg]]
    ELSE [snapshot |-> [set |-> TRUE, value |-> o.value], error |-> NoError]

Displayed(current, o) ==
    IF o.kind = "raised"
    THEN [snapshot |-> NoCached, error |-> [set |-> TRUE, msg |-> o.msg]]
    ELSE [snapshot |-> [set |-> TRUE, value |-> o.value], error |-> NoError]


\* fetchQuota after getQuota has settled: getAllStoredAccounts settles, then
\* statusBar.update and QuotaWebviewPanel.updateCurrent with the snapshot, or
\* with null and the error
UpdateUI(c) ==
    /\ pc[c] = "done"
    /\ pc' = [pc EXCEPT ![c] = "shown"]
    /\ \E ioFails \in BOOLEAN :
         LET r == getAllStoredAccounts(file, ioFails)
             shown == Displayed(statusBar, outcome[c])
         IN /\ accounts' = [accounts EXCEPT ![c] = r]
            /\ statusBar' = IF r.threw THEN statusBar ELSE shown
            /\ panel' = IF r.threw \/ ~panel.open THEN panel
                        ELSE [open |-> TRUE, snapshot |-> shown.snapshot,
                              error |-> shown.error]
            /\ selection' = IF r.threw THEN selection
                            ELSE [selection EXCEPT
                                    !.bar = selection.read[c],
                                    !.panel = IF panel.open THEN selection.read[c]
                                              ELSE @]
    /\ UNCHANGED <<platform, det, ports, endpoint, status, snapshot, called,
                   outcome, up, cachedSnapshot, lastError, file, now, probe, rpc,
                   portScan, locate, polling>>

NoProbeCall == [phase |-> "idle", ports |-> <<>>, behs |-> <<>>, task |-> <<>>,
                results |-> <<>>, order |-> <<>>, result |-> NoEndpoint]

\* the state after activation, on one of the platforms `pfs`, with quota.json
\* as one of `files`
InitWith(pfs, files) ==
    /\ platform \in pfs
    /\ pc = [c \in Triggers |-> "idle"]
    /\ det = [c \in Triggers |-> NoDet]
    /\ ports = [c \in Triggers |-> NoPortList]
    /\ endpoint = [c \in Triggers |-> NoProbe]
    /\ status = [c \in Triggers |-> NoStatusYet]
    /\ snapshot = [c \in Triggers |-> NoSnapshot]
    /\ called = [c \in Triggers |-> {}]
    /\ outcome = [c \in Triggers |-> NoCall]
    /\ up = [c \in Triggers |-> NoUpsert]
    /\ cachedSnapshot = NoCached
    /\ lastError = NoError
    /\ file \in files
    /\ now = 0
    /\ probe = NoProbeCall
    /\ accounts = [c \in Triggers |-> NoAccounts]
    /\ statusBar = NoStatusBar
    /\ panel = NoPanel
    /\ rpc = NoRpc
    /\ portScan = NoPortScan
    /\ locate = NoLocate
    /\ polling = NoPolling
    /\ selection = NoSelection

\* a first activation: there is no quota.json yet
InitOn(pfs) == InitWith(pfs, {NoFile})

Init == InitOn({"win32", "darwin", "linux"})

\* the prober and the store do not read the platform
InitAnyPlatform == InitOn({"linux"})

Next ==
    \E c \in Triggers :
        \/ Start(c)
        \/ Detect(c)
        \/ DiscoverPorts(c)
        \/ Probe(c)
        \/ Status(c)
        \/ UpsertRead(c)
        \/ UpsertWrite(c)
        \/ Stored(c)
        \/ UpdateUI(c)

Spec == Init /\ [][Next]_vars

----------------------------------------------------------------------------
(* probeForConnectAPI, probe by probe *)

\* the lists discoverPorts can return: distinct ports
PortLists == {<<>>, <<PortA>>, <<PortB>>, <<PortA, PortB>>, <<PortB, PortA>>}

\* probeForConnectAPI is called: ports.map(probePort) issues every HTTPS probe
ProbeCall ==
    /\ probe.phase = "idle"
    /\ \E portList \in PortLists :
         \E behs \in [1..Len(portList) -> PortBehaviours] :
            probe' = [ phase |-> "running",
                       ports |-> portList,
                       behs |-> behs,
                       task |-> [i \in 1..Len(portList) |-> "https"],
                       results |-> [i \in 1..Len(portList) |-> NoEndpoint],
                       order |-> <<>>,
                       result |-> NoEndpoint ]
    /\ UNCHANGED <<platform, pc, det, ports, endpoint, status, snapshot, called,
                   outcome, up, cachedSnapshot, lastError, file, now,
                   accounts, statusBar, panel, rpc,
                   portScan, locate, polling, selection>>

\* the HTTPS probe of the i-th port settles; probePort returns its endpoint
\* or goes on to issue the HTTP probe
HttpsSettles(i) ==
    /\ probe.phase = "running"
    /\ probe.task[i] = "https"
    /\ probe.behs[i].secure.kind \in HandledEvents
    /\ LET r == probeHttps(probe.ports[i], probe.behs[i].secure)
       IN probe' = IF r.found
                   THEN [probe EXCEPT !.task[i] = "settled", !.results[i] = r,
                                      !.order = Append(@, i)]
                   ELSE [probe EXCEPT !.task[i] = "http"]
    /\ UNCHANGED <<platform, pc, det, ports, endpoint, status, snapshot, called,
                   outcome, up, cachedSnapshot, lastError, file, now,
                   accounts, statusBar, panel, rpc,
                   portScan, locate, polling, selection>>

\* the HTTP probe of the i-th port settles; probePort returns
HttpSettles(i) ==
    /\ probe.phase = "running"
    /\ probe.task[i] = "http"
    /\ probe.behs[i].plain.kind \in HandledEvents
    /\ probe' = [probe EXCEPT !.task[i] = "settled",
                              !.results[i] = probeHttp(probe.ports[i], probe.behs[i].plain),
                              !.order = Append(@, i)]
    /\ UNCHANGED <<platform, pc, det, ports, endpoint, status, snapshot, called,
                   outcome, up, cachedSnapshot, lastError, file, now,
                   accounts, statusBar, panel, rpc,
                   portScan, locate, polling, selection>>

\* Promise.allSettled(probePromises) resolves: every probePort has settled
AllSettled_any_success(p) ==
    \/ \A i \in 1..Len(p.ports) : p.task[i] = "settled"
    \/ \E i \in 1..Len(p.ports) : p.task[i] = "settled" /\ p.results[i].found

AllSettled(p) == \A i \in 1..Len(p.ports) : p.task[i] = "settled"

\* Promise.allSettled resolves; the loop picks the result
ProbeReturn ==
    /\ probe.phase = "running"
    /\ AllSettled(probe)
    /\ probe' = [probe EXCEPT !.phase = "returned",
                              !.result = SelectEndpoint(probe.results, probe.order)]
    /\ UNCHANGED <<platform, pc, det, ports, endpoint, status, snapshot, called,
                   outcome, up, cachedSnapshot, lastError, file, now,
                   accounts, statusBar, panel, rpc,
                   portScan, locate, polling, selection>>

NextProbe ==
    \/ ProbeCall
    \/ \E i \in 1..Len(probe.ports) : HttpsSettles(i)
    \/ \E i \in 1..Len(probe.ports) : HttpSettles(i)
    \/ ProbeReturn

SpecProbe == InitAnyPlatform /\ [][NextProbe]_vars

----------------------------------------------------------------------------
(* upsertAccountQuota, called with any snapshot at any time *)

\* latest instant a model's reset can lie ahead, in clock ticks
MaxModels == 2
MaxSockets == 3
MaxArgs == 3
MaxTimers == 5
MaxToggles == 2
MaxReset == 1

\* a ModelQuotaInfo as the local parser builds it
StoreModel(id, pct, untilReset) ==
    [ label |-> id, modelId |-> id, remainingPercentage |-> pct,
      isExhausted |-> (pct = 0 \/ pct = Undefined),
      timeUntilResetMs |-> untilReset ]

StoreModels(id) ==
    { StoreModel(id, pct, u) : pct \in {50, Full}, u \in {Undefined} \cup 0..MaxReset }
    \cup { StoreModel(id, Undefined, Undefined) }

\* the second model of a snapshot that has two
OtherModel == StoreModel("m2", Full, 1)

StoreSnapshots ==
    { [email |-> e, models |-> ms] :
        e \in Emails,
        ms \in {<<>>, <<OtherModel>>}
               \cup {<<m>> : m \in StoreModels("m1")}
               \cup {<<m, OtherModel>> : m \in StoreModels("m1")} }

\* one call per caller; the calls may overlap
UpsertCall(c) ==
    /\ pc[c] = "idle"
    /\ up[c].pc = "idle"
    /\ \E snap \in StoreSnapshots :
         up' = [up EXCEPT ![c] = [NoUpsert EXCEPT !.pc = "read",
                                                  !.email = snap.email,
                                                  !.snap = snap]]
    /\ UNCHANGED <<platform, pc, det, ports, endpoint, status, snapshot, called,
                   outcome, cachedSnapshot, lastError, file, now, probe,
                   accounts, statusBar, panel, rpc,
                   portScan, locate, polling, selection>>

\* the wall clock advances
Tick ==
    /\ now < MaxNow
    /\ now' = now + 1
    /\ UNCHANGED <<platform, pc, det, ports, endpoint, status, snapshot, called,
                   outcome, up, cachedSnapshot, lastError, file, probe,
                   accounts, statusBar, panel, rpc,
                   portScan, locate, polling, selection>>

NextStore ==
    \/ \E c \in Triggers : UpsertCall(c)
    \/ \E c \in Triggers : UpsertRead(c)
    \/ \E c \in Triggers : UpsertWrite(c)
    \/ Tick

SpecStore == InitAnyPlatform /\ [][NextStore]_vars

----------------------------------------------------------------------------
(* The store across fetch cycles that do not overlap, from what an earlier
   session left on disk *)

EmptyFile == [exists |-> TRUE, valid |-> TRUE, store |-> EmptyStore]
\* a file JSON.parse rejects (a truncated write, a hand edit)
CorruptFile == [exists |-> TRUE, valid |-> FALSE, store |-> EmptyStore]

\* the file after one upsert of `snap` into an absent store at instant 0
FileAfter(snap) ==
    writeQuotaStore(NoFile, Upserted(EmptyStore, snap.email, snap, 0), FALSE, FALSE).value

\* quota.json as activation can find it
PriorFiles ==
    {NoFile, EmptyFile, CorruptFile}
    \cup { FileAfter([email |-> "a@x.io", models |-> <<m>>]) : m \in StoreModels("m1") }

InitStored == InitWith({"linux"}, PriorFiles)

\* the snapshots a cycle can reach step 6 with
CycleSnapshots ==
    { [email |-> e, models |-> ms] :
        e \in Emails,
        ms \in {<<>>, <<StoreModel("m1", 50, 1)>>,
                <<StoreModel("m1", Full, 1), OtherModel>>}
               \cup {<<StoreModel("m1", Full, u)>> : u \in {Undefined} \cup 0..MaxReset} }

\* a cycle of trigger c reaches step 6 with a snapshot that has an email,
\* while no other cycle is in flight
ReachStore(c) ==
    /\ pc[c] = "idle"
    /\ \A o \in Triggers : pc[o] \in {"idle", "shown"}
    /\ \E snap \in CycleSnapshots :
         /\ snapshot' = [snapshot EXCEPT ![c] = snap]
         /\ up' = [up EXCEPT ![c] = [NoUpsert EXCEPT !.pc = "read",
                                                     !.email = snap.email,
                                                     !.snap = snap]]
    /\ pc' = [pc EXCEPT ![c] = "store"]
    /\ called' = [called EXCEPT ![c] = {Call("upsertAccountQuota", 0)}]
    /\ UNCHANGED <<platform, det, ports, endpoint, status, outcome,
                   cachedSnapshot, lastError, file, now, probe,
                   accounts, statusBar, panel, rpc,
                   portScan, locate, polling, selection>>

\* a first session: quota.json is absent, or holds the empty store
InitFresh == InitWith({"linux"}, {NoFile, EmptyFile})

NextStored ==
    \/ \E c \in Triggers : ReachStore(c)
    \/ \E c \in Triggers : UpsertRead(c)
    \/ \E c \in Triggers : UpsertWrite(c)
    \/ \E c \in Triggers : Stored(c)
    \/ \E c \in Triggers : UpdateUI(c)
    \/ Tick

SpecStored == InitStored /\ [][NextStored]_vars

SpecFresh == InitFresh /\ [][NextStored]_vars

----------------------------------------------------------------------------
(* ConnectClient.getUserStatus and parseLocalQuotaSnapshot, on their own *)

\* what a language server can answer the status RPC with
StatusCodes == {200, 204, 301, 404, 500}

RawModels ==
    { RawModel("m1", f, r) : f \in {0, 50, Undefined}, r \in {Undefined, MaxNow} }

ClientBodies ==
    { NoBody,
      Body("text", "not found", NoEmail, <<>>),
      Body("text", "<html>", NoEmail, <<>>),
      Body("falsy", "null", NoEmail, <<>>),
      Body("primitive", "{..}", NoEmail, <<>>) }
    \cup { Body("object", "{..}", e, ms) :
             e \in {NoEmail, "a@x.io"}, ms \in SeqsUpTo(RawModels, MaxModels) }

ClientResponses ==
    { [kind |-> "error",   code |-> 0, body |-> NoBody],
      [kind |-> "timeout", code |-> 0, body |-> NoBody] }
    \cup { [kind |-> "response", code |-> c, body |-> b] :
             c \in StatusCodes, b \in ClientBodies }

\* getUserStatus issues its request; resp is what the request will come to
GetUserStatusCall(resps) ==
    /\ rpc.phase = "idle"
    /\ \E resp \in resps : rpc' = [phase |-> "pending", response |-> resp]
    /\ UNCHANGED <<platform, pc, det, ports, endpoint, status, snapshot, called,
                   outcome, up, cachedSnapshot, lastError, file, now, probe,
                   accounts, statusBar, panel,
                   portScan, locate, polling, selection>>

\* the event of the request arrives, its handler settles the promise and
\* getUserStatus returns or throws; a caller parses what it returned
RequestSettles ==
    /\ rpc.phase = "pending"
    /\ rpc.response.kind \in HandledEvents
    /\ LET r == getUserStatus(rpc.response, now)
       IN /\ status' = [status EXCEPT !["user"] = r]
          /\ snapshot' = [snapshot EXCEPT !["user"] =
                            IF r.threw THEN NoSnapshot
                            ELSE parseLocalQuotaSnapshot(r.value)]
    /\ rpc' = [rpc EXCEPT !.phase = "settled"]
    /\ UNCHANGED <<platform, pc, det, ports, endpoint, called,
                   outcome, up, cachedSnapshot, lastError, file, now, probe,
                   accounts, statusBar, panel,
                   portScan, locate, polling, selection>>

\* the ConnectUserStatus values parseLocalQuotaSnapshot accepts: isExhausted
\* is optional, and nothing ties it to the quota
ConnectModelInfos ==
    { ConnectModelInfo("m1", pct, u, has, ex) :
        pct \in {0, 50, Undefined}, u \in {Undefined, 1},
        has \in BOOLEAN, ex \in BOOLEAN }

UserStatuses ==
    { [email |-> e, models |-> ms, raw |-> "{..}"] :
        e \in {NoEmail, "a@x.io"}, ms \in SeqsUpTo(ConnectModelInfos, MaxModels) }

\* parseLocalQuotaSnapshot is called with a ConnectUserStatus
ParseLocal ==
    /\ rpc.phase = "idle"
    /\ \E us \in UserStatuses :
         /\ status' = [status EXCEPT !["user"] = Return(us)]
         /\ snapshot' = [snapshot EXCEPT !["user"] = parseLocalQuotaSnapshot(us)]
    /\ rpc' = [rpc EXCEPT !.phase = "parsed"]
    /\ UNCHANGED <<platform, pc, det, ports, endpoint, called,
                   outcome, up, cachedSnapshot, lastError, file, now, probe,
                   accounts, statusBar, panel,
                   portScan, locate, polling, selection>>

NextClient ==
    \/ GetUserStatusCall(ClientResponses)
    \/ RequestSettles
    \/ ParseLocal
    \/ Tick

SpecClient == InitAnyPlatform /\ [][NextClient]_vars

----------------------------------------------------------------------------
(* The network operations of a cycle, with the events arriving *)

\* the server answers the status RPC and the connection closes before the
\* body has ended: Node emits 'aborted' and 'close' on the response, neither
\* 'end' on the response nor 'error' or 'timeout' on the request
Aborted == [kind |-> "aborted", code |-> 200, body |-> NoBody]

NetResponses == StatusResponses \cup {Aborted}

\* getQuota step 4: the client of the endpoint found is asked for the status
ClientCall ==
    /\ probe.phase = "returned"
    /\ probe.result.found
    /\ GetUserStatusCall(NetResponses)

NextNet ==
    \/ NextProbe
    \/ ClientCall
    \/ RequestSettles

\* every event the network delivers is handled: the event loop runs the
\* handler of an event that has one, and the continuation of a settled promise
FairNet ==
    /\ WF_vars(\E i \in 1..Len(probe.ports) : HttpsSettles(i))
    /\ WF_vars(\E i \in 1..Len(probe.ports) : HttpSettles(i))
    /\ WF_vars(ProbeReturn)
    /\ WF_vars(RequestSettles)

SpecNet == InitAnyPlatform /\ [][NextNet]_vars /\ FairNet

----------------------------------------------------------------------------
(* discoverPorts, on its own, with the sockets it ran against *)

ScanTables == SeqsUpTo(SocketRows, MaxSockets)

ScanEnvs == [table : ScanTables, primaryFails : BOOLEAN, fallbackFails : BOOLEAN]

\* discoverPorts(pid) is called; the utilities will see these sockets
PortsCall ==
    /\ portScan.phase = "idle"
    /\ \E env \in ScanEnvs :
         portScan' = [NoPortScan EXCEPT !.phase = "running", !.pid = LsPid, !.env = env]
    /\ UNCHANGED <<platform, pc, det, ports, endpoint, status, snapshot, called,
                   outcome, up, cachedSnapshot, lastError, file, now, probe,
                   accounts, statusBar, panel, rpc, locate, polling, selection>>

\* the utilities have run and the branch of the platform returns
PortsReturn ==
    /\ portScan.phase = "running"
    /\ portScan' = [portScan EXCEPT
                      !.phase = "returned",
                      !.result = discoverPorts(platform, portScan.pid, portScan.env)]
    /\ UNCHANGED <<platform, pc, det, ports, endpoint, status, snapshot, called,
                   outcome, up, cachedSnapshot, lastError, file, now, probe,
                   accounts, statusBar, panel, rpc, locate, polling, selection>>

NextPorts ==
    \/ PortsCall
    \/ PortsReturn

SpecPorts == Init /\ [][NextPorts]_vars

----------------------------------------------------------------------------
(* parseUnixProcessLine, on the command line of the process *)

ArgNames == {"--csrf_token", "--extension_server_port", "--CSRF_TOKEN"}

Tokens ==
    { Token("eq", n, q[1], q[2]) :
        n \in ArgNames,
        q \in { <<"none", "abc123">>, <<"none", "9000">>, <<"double", "abc123">>,
                <<"single", "9000">>, <<"none", "">> } }
    \cup { Token("flag", n, "none", "") : n \in ArgNames }
    \cup { Token("word", "", q[1], q[2]) :
             q \in { <<"none", "abc123">>, <<"none", "9000">>,
                     <<"double", "9000">>, <<"single", "abc123">> } }

CommandLines == SeqsUpTo(Tokens, MaxArgs)

\* a ps line with a pid and this command is handed to parseUnixProcessLine
LocateCall ==
    /\ locate.phase = "idle"
    /\ \E cmd \in CommandLines :
         locate' = [NoLocate EXCEPT !.phase = "called", !.commandLine = cmd]
    /\ UNCHANGED <<platform, pc, det, ports, endpoint, status, snapshot, called,
                   outcome, up, cachedSnapshot, lastError, file, now, probe,
                   accounts, statusBar, panel, rpc, portScan, polling, selection>>

\* the two extractArgument calls, and parseInt of the port there is
LocateReturn ==
    /\ locate.phase = "called"
    /\ LET csrfToken == extractArgument(locate.commandLine, "--csrf_token")
           extensionServerPort ==
               extractArgument(locate.commandLine, "--extension_server_port")
       IN locate' = [locate EXCEPT
                       !.phase = "returned",
                       !.csrfToken = csrfToken,
                       !.extensionServerPort = extensionServerPort,
                       !.port = IF extensionServerPort \in {Null, ""} THEN Undefined
                                ELSE ParseInt(extensionServerPort)]
    /\ UNCHANGED <<platform, pc, det, ports, endpoint, status, snapshot, called,
                   outcome, up, cachedSnapshot, lastError, file, now, probe,
                   accounts, statusBar, panel, rpc, portScan, polling, selection>>

NextLocate ==
    \/ LocateCall
    \/ LocateReturn

SpecLocate == InitAnyPlatform /\ [][NextLocate]_vars

----------------------------------------------------------------------------
(* The extension: activate, the polling timer, handleSetInterval, deactivate *)

\* the period of the polling timer, in seconds
IntervalOf(intensive) == IF intensive THEN 60 ELSE 300

\* clearInterval(id): the timer with that id is no longer active
ClearInterval(timers, id) == {t \in timers : t.id # id}

startPolling_keeps_old(p) ==
    [p EXCEPT !.timers = @ \cup {[id |-> p.nextId,
                                  period |-> IntervalOf(p.isIntensiveMode)]},
              !.pollingInterval = p.nextId,
              !.nextId = @ + 1]

startPolling(p) ==
    LET cleared == IF p.pollingInterval # 0
                   THEN ClearInterval(p.timers, p.pollingInterval)
                   ELSE p.timers
    IN [p EXCEPT !.timers = cleared \cup {[id |-> p.nextId,
                                           period |-> IntervalOf(p.isIntensiveMode)]},
                 !.pollingInterval = p.nextId,
                 !.nextId = @ + 1]

\* activate: the services are made, fetchQuota is called and runs to its
\* first await, startPolling sets the timer
Activate ==
    /\ polling.phase = "idle"
    /\ BeginFetch("timer")
    /\ selection' = [selection EXCEPT !.read["timer"] = selection.stored]
    /\ polling' = startPolling([polling EXCEPT !.phase = "active"])
    /\ UNCHANGED <<platform, up, cachedSnapshot, lastError, file, now, probe,
                   accounts, statusBar, panel, rpc, portScan, locate>>

\* the user runs quota-checker.openDashboard
OpenDashboard ==
    /\ polling.phase = "active"
    /\ Start("user")

\* handleSetInterval(intensive), sent by the dashboard, up to its await
HandleSetInterval(intensive) ==
    /\ polling.phase = "active"
    /\ panel.open
    /\ polling.nextId <= MaxTimers
    /\ polling' = [startPolling([polling EXCEPT !.isIntensiveMode = intensive])
                     EXCEPT !.awaiting = @ + 1]
    /\ UNCHANGED <<platform, pc, det, ports, endpoint, status, snapshot, called,
                   outcome, up, cachedSnapshot, lastError, file, now, probe,
                   accounts, statusBar, panel, rpc, portScan, locate, selection>>

\* ... and after it: QuotaWebviewPanel.updateCurrent with the cache
SetIntervalUpdate ==
    /\ polling.awaiting > 0
    /\ polling' = [polling EXCEPT !.awaiting = @ - 1]
    /\ panel' = IF panel.open
                THEN [open |-> TRUE, snapshot |-> cachedSnapshot, error |-> lastError]
                ELSE panel
    /\ UNCHANGED <<platform, pc, det, ports, endpoint, status, snapshot, called,
                   outcome, up, cachedSnapshot, lastError, file, now, probe,
                   accounts, statusBar, rpc, portScan, locate, selection>>

\* an active timer fires and calls fetchQuota; the model has one cycle of
\* the timer, so a fetch begins when that cycle has not begun
TimerFires ==
    /\ \E t \in polling.timers :
         polling' = [polling EXCEPT !.lastFired = t.period]
    /\ IF pc["timer"] = "idle"
       THEN /\ BeginFetch("timer")
            /\ selection' = [selection EXCEPT !.read["timer"] = selection.stored]
       ELSE UNCHANGED <<pc, det, ports, endpoint, status, snapshot, called, outcome,
                        selection>>
    /\ UNCHANGED <<platform, up, cachedSnapshot, lastError, file, now, probe,
                   accounts, statusBar, panel, rpc, portScan, locate>>

\* deactivate: if (pollingInterval) clearInterval(pollingInterval)
Deactivate ==
    /\ polling.phase = "active"
    /\ polling' = [polling EXCEPT
                     !.phase = "deactivated",
                     !.timers = IF polling.pollingInterval # 0
                                THEN ClearInterval(@, polling.pollingInterval)
                                ELSE @]
    /\ UNCHANGED <<platform, pc, det, ports, endpoint, status, snapshot, called,
                   outcome, up, cachedSnapshot, lastError, file, now, probe,
                   accounts, statusBar, panel, rpc, portScan, locate, selection>>

NextPolling ==
    \/ Activate
    \/ OpenDashboard
    \/ \E intensive \in BOOLEAN : HandleSetInterval(intensive)
    \/ SetIntervalUpdate
    \/ TimerFires
    \/ Deactivate

SpecPolling == InitAnyPlatform /\ [][NextPolling]_vars

----------------------------------------------------------------------------
(* handleToggleModel beside the fetch cycles *)

ModelIds == {"m1", "m2"}

\* how getQuota of a cycle can end
QuotaOutcomes ==
    { Absent(<<"Antigravity process not found">>),
      [kind |-> "returned", msg |-> <<>>,
       value |-> [email |-> "a@x.io", models |-> <<StoreModel("m1", 50, 1)>>]] }

\* getQuota of cycle c runs from its first await to its end
GetQuotaSettles(c) ==
    /\ pc[c] = "detect"
    /\ \E how \in QuotaOutcomes :
         IF how.kind = "raised"
         THEN Settle(c, how)
         ELSE Succeed(c, how.value)
    /\ UNCHANGED <<platform, det, ports, endpoint, status, snapshot, called, up,
                   file, now, probe, accounts, statusBar, panel, rpc,
                   portScan, locate, polling, selection>>

\* the list handleToggleModel persists, from the current one
Toggled_keeps_current(current, modelId, selected) == current

Toggled(current, modelId, selected) ==
    IF selected THEN current \cup {modelId} ELSE current \ {modelId}

\* handleToggleModel(modelId, selected), sent by the dashboard, up to its
\* await: the new list is persisted
ToggleCall(modelId, selected) ==
    /\ panel.open
    /\ selection.toggle.phase \in {"idle", "done"}
    /\ selection.toggle.count < MaxToggles
    /\ LET updated == Toggled(selection.stored, modelId, selected)
       IN selection' = [selection EXCEPT
                          !.stored = updated,
                          !.toggle = [phase |-> "awaiting", updated |-> updated,
                                      count |-> @.count + 1]]
    /\ UNCHANGED <<platform, pc, det, ports, endpoint, status, snapshot, called,
                   outcome, up, cachedSnapshot, lastError, file, now, probe,
                   accounts, statusBar, panel, rpc, portScan, locate, polling>>

\* ... and after it: statusBar.update and QuotaWebviewPanel.updateCurrent
\* with the cache and the new list
ToggleUpdate ==
    /\ selection.toggle.phase = "awaiting"
    /\ statusBar' = [snapshot |-> cachedSnapshot, error |-> lastError]
    /\ panel' = IF panel.open
                THEN [open |-> TRUE, snapshot |-> cachedSnapshot, error |-> lastError]
                ELSE panel
    /\ selection' = [selection EXCEPT
                       !.bar = selection.toggle.updated,
                       !.panel = IF panel.open THEN selection.toggle.updated ELSE @,
                       !.toggle.phase = "done"]
    /\ UNCHANGED <<platform, pc, det, ports, endpoint, status, snapshot, called,
                   outcome, up, cachedSnapshot, lastError, file, now, probe,
                   accounts, rpc, portScan, locate, polling>>

NextToggle ==
    \/ \E c \in Triggers : Start(c)
    \/ \E c \in Triggers : GetQuotaSettles(c)
    \/ \E c \in Triggers : UpdateUI(c)
    \/ \E modelId \in ModelIds, selected \in BOOLEAN : ToggleCall(modelId, selected)
    \/ ToggleUpdate

SpecToggle == InitAnyPlatform /\ [][NextToggle]_vars

----------------------------------------------------------------------------
(* Properties of a fetch cycle (Spec) *)

Invoked(c, fn) == \E k \in called[c] : k.fn = fn

\* C1: a cycle in which detectAntigravityProcess returns not-found ends at
\* once, raised, having invoked nothing but the detector: discoverPorts (so
\* never with an undefined pid), probeForConnectAPI and getUserStatus are
\* never called, neither then nor later.
C1_NotFoundEndsCycle ==
    [][\A c \in Triggers :
         /\ (pc[c] = "detect" /\ pc'[c] # "detect" /\ ~det'[c].value.found)
               => /\ pc'[c] = "done"
                  /\ outcome'[c].kind = "raised"
                  /\ called'[c] = {Call("detectAntigravityProcess", 0)}
         /\ pc[c] \in {"done", "shown"}
               => (pc'[c] \in {"done", "shown"} /\ called'[c] = called[c])
         /\ \A k \in called'[c] :
               k.fn = "discoverPorts" => (k.arg # NaN /\ k.arg # Undefined)]_vars

C1_Witness ==
    \E c \in Triggers :
        /\ pc[c] = "done"
        /\ det[c] = Return(NoProcess)
        /\ called[c] = {Call("detectAntigravityProcess", 0)}
        /\ outcome[c] = Absent(<<"Antigravity process not found">>)

\* C2: a cycle in which a process is found and discoverPorts returns the
\* empty list ends at once, raised, and probeForConnectAPI and getUserStatus
\* are never called, neither then nor later.
C2_NoPortsEndsCycle ==
    [][\A c \in Triggers :
         /\ (pc[c] = "ports" /\ pc'[c] # "ports" /\ Len(ports'[c].value) = 0)
               => /\ det[c].value.found
                  /\ pc'[c] = "done"
                  /\ outcome'[c].kind = "raised"
                  /\ called'[c] = {Call("detectAntigravityProcess", 0),
                                   Call("discoverPorts", det[c].value.pid)}
         /\ (pc[c] \in {"done", "shown"} /\ ~Invoked(c, "probeForConnectAPI"))
               => \A k \in called'[c] :
                     k.fn \notin {"probeForConnectAPI", "getUserStatus"}]_vars

C2_Witness ==
    \E c \in Triggers :
        /\ pc[c] = "done"
        /\ det[c].value.found
        /\ ports[c].value = <<>>
        /\ Invoked(c, "discoverPorts")
        /\ ~Invoked(c, "probeForConnectAPI")
        /\ ~Invoked(c, "getUserStatus")
        /\ outcome[c] = Absent(<<"No listening ports found for Antigravity">>)

\* C3 as stated: a cycle raises only when getUserStatus failed; an absent
\* process, an empty port list or an unconfirmed endpoint end the cycle with
\* a returned null or empty result.
C3_RaisesOnlyOnRpcFailure ==
    \A c \in Triggers :
        pc[c] = "done" =>
            IF Invoked(c, "getUserStatus") /\ status[c].threw
            THEN outcome[c].kind = "raised"
            ELSE outcome[c].kind = "returned"

\* C3, amended: a cycle raises whenever it has no snapshot to return: with
\* its own message when the process is absent, when no port is found and
\* when no endpoint is confirmed (the stages themselves having returned
\* null or the empty list, not raised), and with the client's message when
\* getUserStatus failed.  It returns, with the snapshot, in every other case.
C3_RaisesWheneverNoSnapshot ==
    \A c \in Triggers :
        pc[c] = "done" =>
            /\ ~det[c].threw /\ ~ports[c].threw /\ ~endpoint[c].threw
            /\ IF ~Invoked(c, "discoverPorts")
               THEN det[c].value = NoProcess
                    /\ outcome[c] = [kind |-> "raised", value |-> NoSnapshot,
                                     msg |-> <<"Antigravity process not found">>]
               ELSE IF ~Invoked(c, "probeForConnectAPI")
               THEN ports[c].value = <<>>
                    /\ outcome[c] = [kind |-> "raised", value |-> NoSnapshot,
                                     msg |-> <<"No listening ports found for Antigravity">>]
               ELSE IF ~Invoked(c, "getUserStatus")
               THEN endpoint[c].value = NoEndpoint
                    /\ outcome[c] = [kind |-> "raised", value |-> NoSnapshot,
                                     msg |-> <<"Could not find Connect API endpoint">>]
               ELSE IF status[c].threw
               THEN outcome[c] = [kind |-> "raised", value |-> NoSnapshot,
                                  msg |-> status[c].msg]
               ELSE outcome[c] = [kind |-> "returned", msg |-> <<>>,
                                  value |-> snapshot[c]]

C3_Witness ==
    \E c \in Triggers :
        /\ pc[c] = "done"
        /\ Invoked(c, "probeForConnectAPI")
        /\ ~Invoked(c, "getUserStatus")
        /\ endpoint[c] = Return(NoEndpoint)
        /\ outcome[c].kind = "raised"
        /\ lastError = [set |-> TRUE, msg |-> <<"Could not find Connect API endpoint">>]

\* C4: whatever the utilities and requests they issue end in, the detector,
\* the port detective and the prober complete by returning: the detector
\* and the prober a found value or null, the detective a list, and null or
\* the empty list whenever an error was caught on the way.
C4_StagesNeverRaise ==
    \A c \in Triggers :
        /\ ~det[c].threw /\ ~ports[c].threw /\ ~endpoint[c].threw
        /\ det[c].msg # <<>> => det[c].value = NoProcess
        /\ ports[c].msg # <<>> => ports[c].value = <<>>
        /\ pc[c] = "done" =>
              outcome[c].msg \notin {<<"ps">>, <<"powershell">>, <<"JSON.parse">>,
                                     <<"lsof">>, <<"netstat">>}

C4_Witness ==
    \E c \in Triggers :
        /\ platform = "linux"
        /\ pc[c] = "done"
        /\ det[c].value.found
        /\ ports[c] = [threw |-> FALSE, msg |-> <<"netstat">>, value |-> <<>>]
        /\ outcome[c] = Absent(<<"No listening ports found for Antigravity">>)

\* C5: upsertAccountQuota never raises, whatever its read, mkdir and write
\* steps do; the cycle that awaited it returns its snapshot, sets
\* cachedSnapshot to it and clears lastError, whether or not the store
\* could be read and written.
C5_StorageFailureSwallowed ==
    [][\A c \in Triggers :
         /\ ~up'[c].threw
         /\ (pc[c] = "store" /\ pc'[c] = "done")
               => /\ outcome'[c] = [kind |-> "returned", msg |-> <<>>,
                                    value |-> snapshot[c]]
                  /\ cachedSnapshot' = [set |-> TRUE, value |-> snapshot[c]]
                  /\ lastError' = NoError]_vars

C5_Witness ==
    \E c \in Triggers :
        /\ pc[c] = "done"
        /\ Invoked(c, "upsertAccountQuota")
        /\ up[c].failed
        /\ ~file.exists
        /\ outcome[c].kind = "returned"
        /\ HasEmail(outcome[c].value)
        /\ cachedSnapshot = [set |-> TRUE, value |-> outcome[c].value]
        /\ lastError = NoError

----------------------------------------------------------------------------
(* Properties of the prober (SpecProbe) *)

Accepts200(out) == out.kind = "response" /\ out.code = 200
Returned == probe.phase = "returned"

\* the position of `port` in the probed list
IndexOf(port) == CHOOSE i \in 1..Len(probe.ports) : probe.ports[i] = port

\* the probed list holds A and B, and only B accepts the secure probe
OnlyBSecure ==
    /\ probe.ports \in {<<PortA, PortB>>, <<PortB, PortA>>}
    /\ Accepts200(probe.behs[IndexOf(PortB)].secure)
    /\ ~Accepts200(probe.behs[IndexOf(PortA)].secure)

HttpsAt(port) == [found |-> TRUE, protocol |-> "https", host |-> "127.0.0.1", port |-> port]
HttpAt(port) == [found |-> TRUE, protocol |-> "http", host |-> "localhost", port |-> port]

\* C6 as stated: when only B accepts the secure probe, [A,B] and [B,A] both
\* resolve to B with https, whatever A answers to the plaintext probe.
C6_SecurePortWinsAlways ==
    (Returned /\ OnlyBSecure) => probe.result = HttpsAt(PortB)

\* C6, amended: when only B accepts the secure probe, the result is B with
\* https for [B,A], and for [A,B] provided A's plaintext probe gets no
\* response; for [A,B] with A answering the plaintext probe (any status)
\* the result is A with http.
C6_SecurePortWinsUnlessEarlierPlaintext ==
    (Returned /\ OnlyBSecure) =>
        IF probe.ports = <<PortA, PortB>> /\ probe.behs[1].plain.kind = "response"
        THEN probe.result = HttpAt(PortA)
        ELSE probe.result = HttpsAt(PortB)

C6_Witness ==
    /\ Returned /\ OnlyBSecure
    /\ probe.ports = <<PortA, PortB>>
    /\ probe.behs[1].plain = [kind |-> "response", code |-> 404]
    /\ probe.order = <<2, 1>>
    /\ probe.result = HttpAt(PortA)

\* C7 as stated: the endpoint returned is that of the probe that was the
\* first to settle successfully.
C7_WinnerIsFirstToSettle ==
    Returned => probe.result = FirstSettled(probe.results, probe.order)

\* the positions whose probe settled with an endpoint
Succeeded == {i \in 1..Len(probe.ports) : probe.results[i].found}

\* C7, amended: the probes run concurrently, the result is taken once every
\* probe has settled, and it is the endpoint of the successful port that
\* comes first in the input list, whatever order the probes settled in.
C7_WinnerIsFirstInList ==
    Returned =>
        /\ \A i \in 1..Len(probe.ports) : probe.task[i] = "settled"
        /\ Len(probe.order) = Len(probe.ports)
        /\ IF Succeeded = {} THEN probe.result = NoEndpoint
           ELSE \E i \in Succeeded :
                   /\ \A j \in Succeeded : i <= j
                   /\ probe.result = probe.results[i]
                   /\ probe.result.port = probe.ports[i]

C7_Witness ==
    /\ Returned
    /\ Len(probe.ports) = 2
    /\ Succeeded = {1, 2}
    /\ probe.order = <<2, 1>>
    /\ probe.result.port = probe.ports[1]

\* C8: for a single port whose secure probe is rejected (a status other
\* than 200, an error, a timeout) and whose plaintext GET / gets a response
\* of any status, the result is that port with protocol http.
C8_PlaintextFallback ==
    (/\ Returned
     /\ Len(probe.ports) = 1
     /\ ~Accepts200(probe.behs[1].secure)
     /\ probe.behs[1].plain.kind = "response")
        => /\ probe.result = HttpAt(probe.ports[1])
           /\ probeForConnectAPI(probe.ports, probe.behs) = Return(probe.result)

C8_Witness ==
    /\ Returned
    /\ probe.ports = <<PortA>>
    /\ probe.behs[1] = [secure |-> [kind |-> "timeout", code |-> 0],
                        plain |-> [kind |-> "response", code |-> 404]]
    /\ probe.result = HttpAt(PortA)

\* C9: the result is null exactly when, for every port of the list, the
\* secure probe was rejected and the plaintext probe got no response; so it
\* is null for the empty list.
C9_NullIffAllRejected ==
    Returned =>
        /\ (probe.result = NoEndpoint) <=>
              \A i \in 1..Len(probe.ports) :
                  /\ ~Accepts200(probe.behs[i].secure)
                  /\ probe.behs[i].plain.kind \in {"error", "timeout"}
        /\ probe.ports = <<>> => probe.result = NoEndpoint
        /\ probeForConnectAPI(probe.ports, probe.behs) = Return(probe.result)

C9_Witness ==
    /\ Returned
    /\ Len(probe.ports) = 2
    /\ probe.behs[1].secure = [kind |-> "response", code |-> 404]
    /\ probe.behs[1].plain.kind = "timeout"
    /\ probe.behs[2].secure.kind = "error"
    /\ probe.result = NoEndpoint

----------------------------------------------------------------------------
(* Properties of the store (SpecStore) *)

\* a write of caller c's store reaches the file in this step
Writes(c) == up[c].pc = "write" /\ up'[c].pc = "returned" /\ ~up'[c].failed

\* remainingPercentage >= 1.0 for an incoming model (undefined counts as 0)
IsFull(model) == model.remainingPercentage # Undefined /\ model.remainingPercentage >= Full

\* C10 as stated: every record written has frozenResetMs set if and only if
\* the incoming model's remainingPercentage was >= 1.0.
C10_FrozenIffFull ==
    [][\A c \in Triggers :
         Writes(c) =>
            \A i \in 1..Len(up[c].snap.models) :
               LET model == up[c].snap.models[i]
                   written == file'.store[up[c].email].models[model.modelId]
               IN ("frozenResetMs" \in DOMAIN written) <=> IsFull(model)]_vars

\* the record the store read by the call held for `model`, if any
Previous(store, email, model) ==
    IF email \in DOMAIN store /\ model.modelId \in DOMAIN store[email].models
    THEN store[email].models[model.modelId]
    ELSE <<>>

\* C10, amended: a record written has frozenResetMs set only if the
\* incoming model's remainingPercentage was >= 1.0; and when it was, the
\* field is set if and only if the incoming model has a timeUntilResetMs or
\* the record previously stored for that model holds a non-zero frozenResetMs.
C10_FrozenIffFullAndKnown ==
    [][\A c \in Triggers :
         /\ (up[c].pc = "read" /\ up'[c].pc = "write") =>
               \A i \in 1..Len(up[c].snap.models) :
                  LET model == up[c].snap.models[i]
                      built == up'[c].store[up[c].email].models[model.modelId]
                      previous == Previous(file.store, up[c].email, model)
                  IN (built.frozenResetMs # Undefined) <=>
                        /\ IsFull(model)
                        /\ \/ model.timeUntilResetMs # Undefined
                           \/ TruthyNumber(Get(previous, "frozenResetMs"))
         /\ Writes(c) =>
               \A i \in 1..Len(up[c].snap.models) :
                  LET id == up[c].snap.models[i].modelId
                      built == up[c].store[up[c].email].models[id]
                      written == file'.store[up[c].email].models[id]
                  IN /\ ("frozenResetMs" \in DOMAIN written)
                           <=> built.frozenResetMs # Undefined
                     /\ Get(written, "frozenResetMs") = built.frozenResetMs]_vars

C10_Witness ==
    /\ file.exists
    /\ \E e \in DOMAIN file.store :
          /\ DOMAIN file.store[e].models = {"m1", "m2"}
          /\ file.store[e].models["m1"].remainingPercentage = Full
          /\ "frozenResetMs" \notin DOMAIN file.store[e].models["m1"]
          /\ file.store[e].models["m2"].remainingPercentage = Full
          /\ Get(file.store[e].models["m2"], "frozenResetMs") = 1

----------------------------------------------------------------------------
(* Properties of the store across cycles that do not overlap (SpecStored) *)

\* every model of the snapshot is at full quota, and there is one
FullSnapshot(snap) ==
    /\ Len(snap.models) > 0
    /\ \A i \in 1..Len(snap.models) : IsFull(snap.models[i])

\* caller o's upsert has returned, having written the store
Upserted1(o) == pc[o] \in {"done", "shown"} /\ Invoked(o, "upsertAccountQuota")
                /\ ~up[o].failed

\* C11: when an upsert of a full-quota snapshot follows, with nothing in
\* between and at any later instant, an upsert of the same snapshot for the
\* same email, then whatever the store held before the first, the second
\* leaves every model's resetAt and frozenResetMs as the first left them.
C11_SecondFullUpsertChangesNothing ==
    [][\A c \in Triggers : \A o \in Triggers \ {c} :
         (/\ Writes(c)
          /\ Upserted1(o)
          /\ snapshot[o] = up[c].snap
          /\ FullSnapshot(up[c].snap))
            => \A i \in 1..Len(up[c].snap.models) :
                  LET id == up[c].snap.models[i].modelId
                      first == file.store[up[c].email].models[id]
                      second == file'.store[up[c].email].models[id]
                  IN /\ second.resetAt = first.resetAt
                     /\ Get(second, "frozenResetMs") = Get(first, "frozenResetMs")]_vars

C11_Witness ==
    \E e \in Emails :
        /\ \A c \in Triggers : Upserted1(c) /\ pc[c] = "shown"
                               /\ snapshot[c] = [email |-> e,
                                                 models |-> <<StoreModel("m1", Full, 1)>>]
        /\ file.store[e].lastUpdated > 0
        /\ file.store[e].models["m1"].resetAt # file.store[e].lastUpdated + 1
        /\ file.store[e].models["m1"].frozenResetMs = 1

\* the call of caller c has read the store and built the new one in this step
Builds(c) == up[c].pc = "read" /\ up'[c].pc = "write"

\* C12 as stated: for a model at full quota, resetAt and frozenResetMs are
\* both carried forward from the previous record of that model if it holds
\* a frozenResetMs, and are both computed from the incoming model (now +
\* timeUntilResetMs, or 0 without one; timeUntilResetMs) if it holds none or
\* does not exist.
C12_CarriedIffPreviousFrozen ==
    [][\A c \in Triggers :
         Builds(c) =>
            \A i \in 1..Len(up[c].snap.models) :
               LET model == up[c].snap.models[i]
                   built == up'[c].store[up[c].email].models[model.modelId]
                   previous == Previous(file.store, up[c].email, model)
                   until == model.timeUntilResetMs
               IN IsFull(model) =>
                     IF "frozenResetMs" \in DOMAIN previous
                     THEN /\ built.resetAt = previous.resetAt
                          /\ built.frozenResetMs = previous.frozenResetMs
                     ELSE /\ built.resetAt = IF TruthyNumber(until) THEN now + until ELSE 0
                          /\ built.frozenResetMs = until]_vars

\* C12, amended: for a model at full quota each field is carried forward on
\* its own: resetAt is kept whenever the previous record of that model
\* exists and holds a non-zero resetAt, whether or not that record was
\* full; frozenResetMs is kept whenever the previous record holds a
\* non-zero frozenResetMs.  A field that is not kept is computed from the
\* incoming model: resetAt is now + timeUntilResetMs (0 without one),
\* frozenResetMs is timeUntilResetMs.
C12_EachFieldCarriedIfNonZero ==
    [][\A c \in Triggers :
         Builds(c) =>
            \A i \in 1..Len(up[c].snap.models) :
               LET model == up[c].snap.models[i]
                   built == up'[c].store[up[c].email].models[model.modelId]
                   previous == Previous(file.store, up[c].email, model)
                   until == model.timeUntilResetMs
               IN IsFull(model) =>
                     /\ built.resetAt =
                           IF TruthyNumber(Get(previous, "resetAt"))
                           THEN previous.resetAt
                           ELSE IF TruthyNumber(until) THEN now + until ELSE 0
                     /\ built.frozenResetMs =
                           IF TruthyNumber(Get(previous, "frozenResetMs"))
                           THEN previous.frozenResetMs
                           ELSE until]_vars

C12_Witness ==
    \E c \in Triggers :
        /\ up[c].pc = "write"
        /\ up[c].snap.models = <<StoreModel("m1", Full, Undefined)>>
        /\ file.exists /\ file.valid
        /\ up[c].email \in DOMAIN file.store
        /\ file.store[up[c].email].models["m1"].remainingPercentage = 50
        /\ file.store[up[c].email].models["m1"].resetAt = 1
        /\ up[c].store[up[c].email].models["m1"].resetAt = 1
        /\ up[c].store[up[c].email].models["m1"].frozenResetMs = Undefined

----------------------------------------------------------------------------
(* Properties of the store from a first session on (SpecFresh) *)

ModelIdsOf(snap) == {snap.models[i].modelId : i \in 1..Len(snap.models)}

\* what getAllStoredAccounts returns when its read does not fail
StoredAccounts == getAllStoredAccounts(file, FALSE).value

\* C13: from an absent or empty store and through upserts that do not
\* overlap, getAllStoredAccounts returns a mapping whose keys are exactly
\* the emails upserted so far; an upsert leaves under its email exactly the
\* model ids of its snapshot and leaves every other email's record as it
\* was; and the getAllStoredAccounts call of a cycle returns that mapping.
C13_ReadAllReturnsLatestUpserts ==
    [][/\ (\A c \in Triggers : pc'[c] # "store")
            => DOMAIN StoredAccounts' = {up'[c].email : c \in {o \in Triggers : Upserted1(o)'}}
       /\ \A c \in Triggers :
            /\ Writes(c) =>
                 /\ DOMAIN StoredAccounts'[up[c].email].models = ModelIdsOf(up[c].snap)
                 /\ \A e \in DOMAIN StoredAccounts \ {up[c].email} :
                       e \in DOMAIN StoredAccounts' /\ StoredAccounts'[e] = StoredAccounts[e]
            /\ (pc[c] = "done" /\ pc'[c] = "shown" /\ accounts'[c].msg = <<>>)
                 => accounts'[c] = Return(StoredAccounts)]_vars

C13_Witness ==
    \E e \in Emails :
        /\ \A c \in Triggers : Upserted1(c) /\ pc[c] = "shown" /\ snapshot[c].email = e
        /\ ModelIdsOf(snapshot["timer"]) = {"m1", "m2"}
        /\ ModelIdsOf(snapshot["user"]) = {"m1"}
        /\ accounts["user"].msg = <<>>
        /\ DOMAIN accounts["user"].value = {e}
        /\ DOMAIN accounts["user"].value[e].models = {"m1"}

\* the getAllStoredAccounts call of cycle c settles in this step
ReadsAll(c) == pc[c] = "done" /\ pc'[c] = "shown"

\* C14: getAllStoredAccounts never raises, and it returns the empty mapping
\* when quota.json does not exist, when it cannot be read and when it
\* holds text that is not JSON.
C14_ReadAllEmptyOnFailure ==
    [][\A c \in Triggers :
         /\ ~accounts'[c].threw
         /\ ReadsAll(c) =>
               /\ ~file.exists => accounts'[c].value = EmptyStore
               /\ (file.exists /\ ~file.valid) => accounts'[c].value = EmptyStore
               /\ accounts'[c].msg # <<>> => accounts'[c].value = EmptyStore]_vars

C14_Witness ==
    /\ file = CorruptFile
    /\ pc["timer"] = "shown"
    /\ accounts["timer"] = [threw |-> FALSE, msg |-> <<"SyntaxError">>, value |-> EmptyStore]
    /\ pc["user"] = "shown"
    /\ accounts["user"] = [threw |-> FALSE, msg |-> <<"EACCES">>, value |-> EmptyStore]

----------------------------------------------------------------------------
(* Properties of overlapping upserts (SpecStore) *)

\* the store a call reads from quota.json when the read does not fail
Readable == IF file.exists /\ file.valid THEN file.store ELSE EmptyStore

\* C15: a call builds its store from the store it read: its own email's
\* record is new, every other record is as read.  Its write replaces the
\* whole file by that store, so a record another call wrote after the read
\* is gone; with two overlapping calls for different emails, a file that
\* holds only one of them after both have written is reached.
C15_LastWriterWins ==
    [][\A c \in Triggers :
         /\ Builds(c) =>
               /\ DOMAIN up'[c].store = DOMAIN Readable \cup {up[c].email}
               /\ \A e \in DOMAIN Readable \ {up[c].email} :
                     up'[c].store[e] = Readable[e]
         /\ Writes(c) =>
               /\ file'.exists /\ file'.valid
               /\ DOMAIN file'.store = DOMAIN up[c].store
               /\ \A e \in DOMAIN file'.store \ {up[c].email} :
                     file'.store[e] = up[c].store[e]
               /\ DOMAIN file'.store[up[c].email].models = ModelIdsOf(up[c].snap)
               /\ file'.store[up[c].email].lastUpdated = up[c].store[up[c].email].lastUpdated]_vars

C15_Witness ==
    /\ \A c \in Triggers : up[c].pc = "returned" /\ ~up[c].failed
    /\ up["timer"].email # up["user"].email
    /\ file.exists
    /\ DOMAIN file.store = {up["user"].email}

----------------------------------------------------------------------------
(* Properties of the Connect client and the local parser (SpecClient) *)

\* the message has this part
Contains(msg, part) == \E i \in 1..Len(msg) : msg[i] = part

\* the status RPC was answered, with this status code class
Answered == rpc.phase = "settled" /\ rpc.response.kind = "response"
Is2xx == rpc.response.code >= 200 /\ rpc.response.code < 300

\* C16: when the status RPC is answered 404, getUserStatus fails with a
\* message that has the RPC path in it; when it is answered any other status
\* outside 2xx, it fails with a message that has the response body in it; both
\* are the same wrapped error and neither carries a payload.
C16_NonSuccessStatusFails ==
    (Answered /\ ~Is2xx) =>
        /\ status["user"].threw
        /\ status["user"].value = NoStatus
        /\ Head(status["user"].msg) = "Failed to fetch user status: "
        /\ IF rpc.response.code = 404
           THEN Contains(status["user"].msg, GetUserStatusPath)
           ELSE Contains(status["user"].msg, rpc.response.body.text)

C16_Witness ==
    /\ Answered
    /\ rpc.response.code = 404
    /\ rpc.response.body.text = "not found"
    /\ status["user"].threw
    /\ Contains(status["user"].msg, GetUserStatusPath)
    /\ ~Contains(status["user"].msg, "not found")

\* the body JSON.parse rejects: no text at all, or text that is not JSON
NotJson == rpc.response.body.shape \in {"empty", "text"}

\* C17: whenever the status RPC is answered 2xx with a body that is not
\* valid JSON, the empty body included, getUserStatus does not fail and
\* returns a payload whose raw value is the response text.
C17_NonJsonBodyReturned ==
    (Answered /\ Is2xx /\ NotJson) =>
        /\ ~status["user"].threw
        /\ status["user"].value.raw = rpc.response.body.text

\* the empty body of a 2xx answer: getUserStatus fails, and not from request
C17_Witness ==
    /\ Answered
    /\ Is2xx
    /\ rpc.response.body = NoBody
    /\ status["user"].threw
    /\ status["user"].msg = <<"Could not fetch user status from Connect RPC endpoint">>

\* parseLocalQuotaSnapshot has returned the snapshot of the "user" slot
Parsed == rpc.phase = "parsed" \/ (rpc.phase = "settled" /\ ~status["user"].threw)

\* C18: in every snapshot parseLocalQuotaSnapshot returns, whatever the
\* ConnectUserStatus it was given, a model whose remainingPercentage is
\* exactly 0 has isExhausted true.
C18_ZeroQuotaIsExhausted ==
    Parsed =>
        \A i \in 1..Len(snapshot["user"].models) :
            snapshot["user"].models[i].remainingPercentage = 0
                => snapshot["user"].models[i].isExhausted

\* a model given with quota 0 and isExhausted false comes out not exhausted
C18_Witness ==
    /\ rpc.phase = "parsed"
    /\ Len(status["user"].value.models) = 1
    /\ status["user"].value.models[1].hasIsExhausted
    /\ ~status["user"].value.models[1].isExhausted
    /\ snapshot["user"].models[1].remainingPercentage = 0
    /\ ~snapshot["user"].models[1].isExhausted

----------------------------------------------------------------------------
(* Properties of overlapping fetch cycles (Spec) *)

Other(c) == CHOOSE o \in Triggers : o # c

\* C19: overlapping fetchQuota cycles are neither cancelled nor merged.  The
\* step in which getQuota of a cycle settles writes that cycle's result to
\* lastError or cachedSnapshot, the step in which a cycle updates the UI puts
\* that cycle's own result on the status bar and the open dashboard over
\* whatever the other cycle put there, and neither step touches the position
\* or the result of the other cycle: the display is that of the cycle whose
\* update ran last.
C19_LastCompletedCycleShows ==
    [][\A c \in Triggers :
         /\ (pc[c] # "done" /\ pc'[c] = "done") =>
               /\ IF outcome'[c].kind = "raised"
                  THEN lastError' = [set |-> TRUE, msg |-> outcome'[c].msg]
                  ELSE cachedSnapshot' = [set |-> TRUE, value |-> outcome'[c].value]
               /\ pc'[Other(c)] = pc[Other(c)]
               /\ outcome'[Other(c)] = outcome[Other(c)]
         /\ (pc[c] = "done" /\ pc'[c] = "shown") =>
               /\ statusBar'.error.set = (outcome[c].kind = "raised")
               /\ statusBar'.error.msg = outcome[c].msg
               /\ statusBar'.snapshot.set = (outcome[c].kind = "returned")
               /\ statusBar'.snapshot.value = outcome[c].value
               /\ panel.open => /\ panel'.snapshot = statusBar'.snapshot
                                /\ panel'.error = statusBar'.error
               /\ pc'[Other(c)] = pc[Other(c)]
               /\ outcome'[Other(c)] = outcome[Other(c)]]_vars

\* both cycles ran to their end; getQuota of the user cycle settled last (the
\* cache holds its snapshot) and the UI update of the timer cycle ran last:
\* the display shows the other, older snapshot
C19_Witness ==
    /\ pc["timer"] = "shown" /\ pc["user"] = "shown"
    /\ outcome["timer"].kind = "returned" /\ outcome["user"].kind = "returned"
    /\ outcome["timer"].value # outcome["user"].value
    /\ cachedSnapshot = [set |-> TRUE, value |-> outcome["user"].value]
    /\ statusBar.snapshot = [set |-> TRUE, value |-> outcome["timer"].value]
    /\ panel.open /\ panel.snapshot = statusBar.snapshot

----------------------------------------------------------------------------
(* Properties of the network operations (SpecNet) *)

\* the probe of the i-th port is at this task
ProbeAt(i, task) == i <= Len(probe.task) /\ probe.task[i] = task

\* C20: every network operation reaches a definite outcome.  Every HTTPS
\* probe and every HTTP probe settles, probeForConnectAPI returns for every
\* port list, and getUserStatus returns a payload or fails, once its request
\* has produced an event.
C20_EveryOperationSettles ==
    /\ \A i \in 1..2 : ProbeAt(i, "https") ~> ~ProbeAt(i, "https")
    /\ \A i \in 1..2 : ProbeAt(i, "http") ~> ProbeAt(i, "settled")
    /\ (probe.phase = "running") ~> (probe.phase = "returned")
    /\ (rpc.phase = "pending") ~> (rpc.phase = "settled")

\* the status request whose response was cut short is pending
C20_Witness ==
    /\ probe.phase = "returned"
    /\ rpc.phase = "pending"
    /\ rpc.response = Aborted
    /\ status["user"] = NoStatusYet

\* the probes do reach their outcome: the three parts about the prober alone
ProbesSettle ==
    /\ \A i \in 1..2 : ProbeAt(i, "https") ~> ~ProbeAt(i, "https")
    /\ \A i \in 1..2 : ProbeAt(i, "http") ~> ProbeAt(i, "settled")
    /\ (probe.phase = "running") ~> (probe.phase = "returned")

\* and so does a status request that is answered in full, fails or times out
HandledRequestsSettle ==
    (rpc.phase = "pending" /\ rpc.response # Aborted) ~> (rpc.phase = "settled")

----------------------------------------------------------------------------
(* Properties of the port detective (SpecPorts) *)

\* the process pid owns a TCP socket listening on port p
Listens(pid, p) ==
    \E i \in 1..Len(portScan.env.table) :
        /\ portScan.env.table[i].pid = pid
        /\ portScan.env.table[i].listen
        /\ portScan.env.table[i].port = p

PortsFound == portScan.result.value

\* C21: every port discoverPorts(pid) returns is the local port of a TCP
\* LISTEN socket owned by the process with exactly that pid, on every platform
\* branch and fallback.
C21_OnlyPortsOfThePid ==
    portScan.phase = "returned" =>
        \A k \in 1..Len(PortsFound) : Listens(portScan.pid, PortsFound[k])

\* on Linux a port that only the process 142 listens on is returned for pid 42
C21_Witness ==
    /\ portScan.phase = "returned"
    /\ platform = "linux"
    /\ portScan.pid = LsPid
    /\ PortsFound = <<PortB>>
    /\ ~Listens(LsPid, PortB)
    /\ Listens(OtherPid, PortB)

\* where the utility output first reports port p for the queried pid
FirstLine(p) ==
    CHOOSE i \in 1..Len(portScan.env.table) :
        /\ portScan.env.table[i].pid = portScan.pid
        /\ portScan.env.table[i].listen
        /\ portScan.env.table[i].port = p
        /\ \A j \in 1..(i - 1) :
              ~ ( /\ portScan.env.table[j].pid = portScan.pid
                  /\ portScan.env.table[j].listen
                  /\ portScan.env.table[j].port = p )

\* C22: the list discoverPorts returns never has the same port twice; where
\* lsof reports a port of the queried pid on several lines, the port is in
\* the list exactly once, ordered by its first line.
C22_EachPortOnce ==
    portScan.phase = "returned" =>
        /\ \A i, j \in 1..Len(PortsFound) :
              i # j => PortsFound[i] # PortsFound[j]
        /\ (platform = "darwin" /\ ~portScan.env.primaryFails) =>
              /\ \A p \in {PortA, PortB} :
                    Listens(portScan.pid, p) => Includes(PortsFound, p)
              /\ \A i, j \in 1..Len(PortsFound) :
                    i < j => FirstLine(PortsFound[i]) < FirstLine(PortsFound[j])

\* lsof printed port B, port A, port B for the pid: B then A is returned
C22_Witness ==
    /\ portScan.phase = "returned"
    /\ platform = "darwin"
    /\ Len(portScan.env.table) = 3
    /\ \A i \in 1..3 : portScan.env.table[i].pid = LsPid /\ portScan.env.table[i].listen
    /\ portScan.env.table[1].port = PortB
    /\ portScan.env.table[2].port = PortA
    /\ portScan.env.table[3].port = PortB
    /\ PortsFound = <<PortB, PortA>>

\* the branches that ask for the pid itself return only its ports
ExactBranchesOnlyPortsOfThePid ==
    (portScan.phase = "returned" /\ platform # "linux") =>
        \A k \in 1..Len(PortsFound) : Listens(portScan.pid, PortsFound[k])

----------------------------------------------------------------------------
(* Properties of the process locator (SpecLocate) *)

\* the tokens of the command line that name the argument
Naming(argName) ==
    { i \in 1..Len(locate.commandLine) :
        /\ locate.commandLine[i].form \in {"eq", "flag"}
        /\ LowerCase(locate.commandLine[i].name) = argName }

\* what extractArgument should give for an argument the command line names
\* at most once: its value, in either format, without the quotes
ValueOf(argName, got) ==
    LET cmd == locate.commandLine
    IN /\ Naming(argName) = {} => got = Null
       /\ \A i \in Naming(argName) :
             Naming(argName) = {i} =>
                /\ (cmd[i].form = "eq" /\ (cmd[i].quote # "none" \/ cmd[i].value # ""))
                      => got = cmd[i].value
                /\ (cmd[i].form = "flag" /\ i < Len(cmd) /\ cmd[i + 1].form = "word")
                      => got = cmd[i + 1].value

TheExample ==
    << Token("eq", "--csrf_token", "none", "abc123"),
       Token("flag", "--extension_server_port", "none", ""),
       Token("word", "", "none", "9000") >>

\* C23: extractArgument returns the value of a named argument given as
\* --arg=value or as --arg value, without its surrounding quotes, and null
\* when the argument is absent; for `--csrf_token=abc123
\* --extension_server_port 9000` the locator has csrfToken "abc123" and
\* extensionServerPort 9000.
C23_ArgumentValueExtracted ==
    locate.phase = "returned" =>
        /\ ValueOf("--csrf_token", locate.csrfToken)
        /\ ValueOf("--extension_server_port", locate.extensionServerPort)
        /\ locate.commandLine = TheExample =>
              locate.csrfToken = "abc123" /\ locate.port = 9000

C23_Witness ==
    /\ locate.phase = "returned"
    /\ locate.commandLine = TheExample
    /\ locate.csrfToken = "abc123"
    /\ locate.extensionServerPort = "9000"
    /\ locate.port = 9000

----------------------------------------------------------------------------
(* Properties of what a fetch cycle persists (Spec) *)

\* the CSRF tokens the cycles have read from the process command line
TokensRead == {det[c].value.csrfToken : c \in Triggers} \ {""}

StoredModelFields ==
    {"label", "modelId", "remainingPercentage", "isExhausted", "resetAt",
     "frozenResetMs"}

\* the parsed content of quota.json has the shape of a QuotaStore and none
\* of its strings is a token
TokenFree(store) ==
    \A e \in DOMAIN store :
        /\ e \notin TokensRead
        /\ DOMAIN store[e] = {"lastUpdated", "models"}
        /\ \A id \in DOMAIN store[e].models :
              /\ DOMAIN store[e].models[id] \subseteq StoredModelFields
              /\ id \notin TokensRead
              /\ store[e].models[id].label \notin TokensRead
              /\ store[e].models[id].modelId \notin TokensRead

\* C24: the CSRF token read from the command line never reaches quota.json.
\* The file holds only email keys, lastUpdated and the six fields of each
\* model, and what a cycle writes is a function of the store it read, of its
\* snapshot and of the time, whatever its token: two runs that differ in the
\* token alone write the same.
C24_TokenNeverStored ==
    /\ [](file.exists /\ file.valid => TokenFree(file.store))
    /\ [][\A c \in Triggers :
            /\ (up[c].pc = "read" /\ up'[c].pc = "write") =>
                  up'[c].store = Upserted(file.store, snapshot[c].email, snapshot[c], now)
            /\ (up[c].pc = "write" /\ up'[c].pc = "returned" /\ file' # file) =>
                  file' = [exists |-> TRUE, valid |-> TRUE,
                           store |-> JsonStringify(up[c].store)]]_vars

\* a cycle that probed with a token has stored its account
C24_Witness ==
    /\ pc["user"] = "done"
    /\ det["user"].value.csrfToken = "tok"
    /\ outcome["user"].kind = "returned"
    /\ file.exists /\ file.valid
    /\ outcome["user"].value.email \in DOMAIN file.store
    /\ DOMAIN file.store[outcome["user"].value.email].models # {}

----------------------------------------------------------------------------
(* Properties of the polling timer (SpecPolling) *)

----------------------------------------------------------------------------
(* Properties of the prober's return (SpecProbe) *)

\* the probe of some port has settled with an endpoint
SomeSuccess ==
    \E i \in 1..Len(probe.ports) : probe.task[i] = "settled" /\ probe.results[i].found

\* the probe of some port is still in flight
SomePending ==
    \E i \in 1..Len(probe.ports) : probe.task[i] # "settled"

\* C26 as stated: probeForConnectAPI returns as soon as the probe of one port
\* has settled with success, without waiting for the probes of the other
\* ports: once there is a success its return is due.
C26_ReturnsOnFirstSuccess ==
    (probe.phase = "running" /\ SomeSuccess) => ENABLED ProbeReturn

\* C26, amended: probeForConnectAPI returns when the probes of all ports
\* have settled and not before, however early one of them succeeded.
C26_ReturnsWhenAllSettled ==
    /\ [](probe.phase = "running" => (ENABLED ProbeReturn <=> ~SomePending))
    /\ [][(probe.phase = "running" /\ probe'.phase = "returned") => ~SomePending]_vars

\* port 1 answered first, port 2 ran into both timeouts, and only then
\* did the call return, with port 1
C26_Witness ==
    /\ probe.phase = "returned"
    /\ Len(probe.ports) = 2
    /\ probe.order = <<1, 2>>
    /\ probe.results[1].found
    /\ probe.behs[2].secure.kind = "timeout"
    /\ probe.behs[2].plain.kind = "timeout"
    /\ probe.result = probe.results[1]

----------------------------------------------------------------------------
(* Properties of the end of a fetch cycle (Spec) *)

\* the status RPC of cycle c has just returned a status whose snapshot has
\* no email: the address is absent, or the empty string
ParsedWithoutEmail(c) ==
    /\ pc[c] = "status"
    /\ pc'[c] # "status"
    /\ ~status'[c].threw
    /\ snapshot'[c].email \in {NoEmail, ""}

\* C27: when the parsed snapshot has no email the cycle does not invoke
\* upsertAccountQuota and leaves the store file as it is, and the cycle
\* succeeds: it returns the snapshot and sets cachedSnapshot to it.
C27_NoEmailNoUpsert ==
    /\ [][\A c \in Triggers :
            ParsedWithoutEmail(c) =>
               /\ Call("upsertAccountQuota", 0) \notin called'[c]
               /\ up'[c] = up[c]
               /\ file' = file
               /\ pc'[c] = "done"
               /\ outcome'[c] = [kind |-> "returned", msg |-> <<>>,
                                 value |-> snapshot'[c]]
               /\ cachedSnapshot' = [set |-> TRUE, value |-> snapshot'[c]]]_vars
    /\ [](\A c \in Triggers :
            (pc[c] \in {"done", "shown"} /\ outcome[c].kind = "returned"
               /\ outcome[c].value.email \in {NoEmail, ""})
               => Call("upsertAccountQuota", 0) \notin called[c])

\* a cycle returned a snapshot with the empty address and models; nothing
\* was written
C27_Witness ==
    /\ pc["timer"] = "done"
    /\ pc["user"] = "idle"
    /\ outcome["timer"].kind = "returned"
    /\ outcome["timer"].value.email = ""
    /\ outcome["timer"].value.models # <<>>
    /\ cachedSnapshot = [set |-> TRUE, value |-> outcome["timer"].value]
    /\ Call("upsertAccountQuota", 0) \notin called["timer"]
    /\ ~file.exists

\* getQuota of cycle c settles in this step
Completes(c) == pc[c] # "done" /\ pc'[c] = "done"

\* C28: a getQuota that fails leaves cachedSnapshot as it is and sets
\* lastError to the failure; one that succeeds sets cachedSnapshot to the
\* snapshot it returns and lastError to null; nothing else writes either.
\* So after cycles that complete one after the other lastError is null
\* exactly if the most recent one succeeded, and cachedSnapshot is the
\* snapshot of the most recent success.
C28_CacheFollowsLastCycle ==
    [][ /\ \A c \in Triggers :
             Completes(c) =>
                IF outcome'[c].kind = "raised"
                THEN /\ cachedSnapshot' = cachedSnapshot
                     /\ lastError' = [set |-> TRUE, msg |-> outcome'[c].msg]
                ELSE /\ outcome'[c].kind = "returned"
                     /\ cachedSnapshot' = [set |-> TRUE, value |-> outcome'[c].value]
                     /\ lastError' = NoError
        /\ (\A c \in Triggers : ~Completes(c)) =>
              /\ cachedSnapshot' = cachedSnapshot
              /\ lastError' = lastError ]_vars

\* the timer cycle succeeded, then the user cycle failed: lastError is that
\* failure and the cache still holds the timer cycle's snapshot
C28_Witness ==
    /\ pc["timer"] \in {"done", "shown"}
    /\ pc["user"] = "done"
    /\ outcome["timer"].kind = "returned"
    /\ outcome["user"].kind = "raised"
    /\ lastError = [set |-> TRUE, msg |-> outcome["user"].msg]
    /\ cachedSnapshot = [set |-> TRUE, value |-> outcome["timer"].value]

----------------------------------------------------------------------------
(* Properties of a store file that cannot be parsed (SpecStored) *)

\* C29: while quota.json exists and cannot be parsed, every
\* upsertAccountQuota returns without raising and writes nothing: the file
\* stays as it is through any number of upserts, no account is ever stored,
\* and getAllStoredAccounts returns the empty mapping every time.
C29_CorruptFileStaysCorrupt ==
    /\ [][file = CorruptFile => file' = CorruptFile]_vars
    /\ [](file = CorruptFile =>
            \A c \in Triggers :
               /\ up[c].pc = "returned" => (up[c].failed /\ ~up[c].threw)
               /\ pc[c] = "shown" =>
                     (~accounts[c].threw /\ accounts[c].value = EmptyStore))

\* two cycles, one after the other, have upserted and read the accounts:
\* the file is the same and both got the empty mapping
C29_Witness ==
    /\ file = CorruptFile
    /\ \A c \in Triggers :
          /\ pc[c] = "shown"
          /\ Call("upsertAccountQuota", 0) \in called[c]
          /\ HasEmail(snapshot[c])
          /\ snapshot[c].models # <<>>
          /\ accounts[c].value = EmptyStore

----------------------------------------------------------------------------
(* Properties of the model selection on display (SpecToggle) *)

\* no handleToggleModel call and no fetch cycle is in flight
Quiet ==
    /\ selection.toggle.phase = "done"
    /\ \A c \in Triggers : pc[c] \in {"idle", "shown"}

\* C30: once handleToggleModel has completed and every fetch cycle that was
\* in flight during it has finished, the status bar and the dashboard show
\* the persisted selection, the list in global state after the toggle.
C30_DisplayShowsPersistedSelection ==
    Quiet =>
        /\ selection.bar = selection.stored
        /\ panel.open => selection.panel = selection.stored

\* the user cycle began, m1 was selected and the toggle completed, then the
\* cycle finished: m1 is persisted, the display shows no model selected
C30_Witness ==
    /\ Quiet
    /\ pc["user"] = "shown"
    /\ selection.toggle.count = 1
    /\ selection.stored = {"m1"}
    /\ selection.read["user"] = {}
    /\ selection.bar = {}
    /\ panel.open /\ selection.panel = {}

====
